---- MODULE Spec2Model ----
(***************************************************************************)
(* A model of the AI Memory Gateway: the tokenizer and weighted search of  *)
(* database.py, the extraction client of memory_extractor.py, and the      *)
(* chat request path and the background curation pipeline of main.py.      *)
(*                                                                         *)
(* Text is a sequence of Unicode code points, so that substring tests,     *)
(* case folding and the character classes of the regular expressions are   *)
(* computed rather than assumed.                                           *)
(***************************************************************************)
EXTENDS Integers, Sequences, FiniteSets, TLC

VARIABLES
    memories,       \* table memories: a set of rows
    conversations,  \* table conversations: the rows in insertion order
    nextId,         \* the SERIAL of table memories
    now,            \* the store's clock, NOW(), in ticks
    pool,           \* database._pool: "none" or "open"
    config,         \* the environment: MEMORY_ENABLED, DATABASE_URL, API_KEY, SYSTEM_PROMPT
    lastSearch,     \* the last call of search_memories: arguments, store before, outcome
    req,            \* chat requests: req[r] is the handler's position and locals
    pipe,           \* pipeline runs: pipe[r] is the run launched by request r
    app,            \* the application: "starting", "serving" or "failed" (start-up raised)
    imp,            \* import requests: imp[p] is the handler's position and locals
    input,          \* the argument of a function applied on its own
    output,         \* what that function returned
    tasks,          \* tasks of the event loop seen from the pool: position, connections held
    pools           \* the asyncpg pools that were created and are not closed

vars == <<memories, conversations, nextId, now, pool, config, lastSearch, req, pipe,
         app, imp, input, output, tasks, pools>>

----------------------------------------------------------------------------
(* Bounds of the model *)

MaxMem == 3         \* rows of table memories
MaxClock == 2       \* ticks of the clock
MaxLimit == 2       \* the limit argument of a search

----------------------------------------------------------------------------
(* Text *)

Min(a, b) == IF a < b THEN a ELSE b

\* str.lower / ILIKE case folding of one character (ASCII letters; CJK has no case)
Lower(c) == IF c >= 65 /\ c <= 90 THEN c + 32 ELSE c

LowerStr(s) == [i \in 1..Len(s) |-> Lower(s[i])]

\* Python's `kw in content`: case-sensitive substring containment
Contains(content, kw) ==
    \E i \in 0..(Len(content) - Len(kw)) :
        \A k \in 1..Len(kw) : content[i + k] = kw[k]

\* SQL `content ILIKE '%' || kw || '%'`; kw holds no % or _ (letters, digits, CJK)
ILike(content, kw) == Contains(LowerStr(content), LowerStr(kw))

\* CJK_PATTERN = [U+4E00-U+9FFF, U+3400-U+4DBF]
CJK_PATTERN(c) == (c >= 19968 /\ c <= 40959) \/ (c >= 13312 /\ c <= 19903)

\* the class [a-zA-Z0-9] of EN_WORD_PATTERN
EN_WORD_CLASS(c) ==
    (c >= 97 /\ c <= 122) \/ (c >= 65 /\ c <= 90) \/ (c >= 48 /\ c <= 57)

\* the class \d of NUM_PATTERN: for a str pattern, every Unicode decimal digit
\* (here ASCII, Arabic-Indic and fullwidth digits)
NUM_CLASS(c) ==
    (c >= 48 /\ c <= 57) \/ (c >= 1632 /\ c <= 1641) \/ (c >= 65296 /\ c <= 65305)

\* the matches of EN_WORD_PATTERN.finditer, [a-zA-Z0-9]+ : the maximal runs <<i, j>>
EN_WORD_RUNS(s) ==
    { ij \in (1..Len(s)) \X (1..Len(s)) :
        /\ ij[1] <= ij[2]
        /\ \A k \in ij[1]..ij[2] : EN_WORD_CLASS(s[k])
        /\ (ij[1] = 1 \/ ~EN_WORD_CLASS(s[ij[1] - 1]))
        /\ (ij[2] = Len(s) \/ ~EN_WORD_CLASS(s[ij[2] + 1])) }

\* the words of EN_WORD_PATTERN kept by `if len(word) >= 2`
EN_WORD_PATTERN(s) ==
    { SubSeq(s, ij[1], ij[2]) : ij \in { r \in EN_WORD_RUNS(s) : r[2] - r[1] + 1 >= 2 } }

\* the matches of NUM_PATTERN.finditer, \d{2,} : the maximal digit runs of length >= 2
NUM_PATTERN(s) ==
    { SubSeq(s, ij[1], ij[2]) : ij \in
        { r \in (1..Len(s)) \X (1..Len(s)) :
            /\ r[2] - r[1] + 1 >= 2
            /\ \A k \in r[1]..r[2] : NUM_CLASS(s[k])
            /\ (r[1] = 1 \/ ~NUM_CLASS(s[r[1] - 1]))
            /\ (r[2] = Len(s) \/ ~NUM_CLASS(s[r[2] + 1])) } }

\* _add_chinese_ngrams with the 3-character window stopping one position early
add_chinese_ngrams_short_window(text) ==
    (IF Len(text) <= 3 THEN {text} ELSE {})
    \cup { SubSeq(text, i, i + 1) : i \in 1..(Len(text) - 1) }
    \cup (IF Len(text) >= 3
            THEN { SubSeq(text, i, i + 2) : i \in 1..(Len(text) - 3) }
            ELSE {})

\* _add_chinese_ngrams(chars, keywords): the keywords it adds
add_chinese_ngrams(text) ==
    (IF Len(text) <= 3 THEN {text} ELSE {})
    \cup { SubSeq(text, i, i + 1) : i \in 1..(Len(text) - 1) }
    \cup (IF Len(text) >= 3
            THEN { SubSeq(text, i, i + 2) : i \in 1..(Len(text) - 2) }
            ELSE {})

\* the character loop without the reset of chinese_chars on a non-CJK character
RECURSIVE ScanChinese_no_reset(_, _, _)
ScanChinese_no_reset(query, i, chinese_chars) ==
    IF i > Len(query)
    THEN IF Len(chinese_chars) >= 2 THEN add_chinese_ngrams(chinese_chars) ELSE {}
    ELSE IF CJK_PATTERN(query[i])
         THEN ScanChinese_no_reset(query, i + 1, Append(chinese_chars, query[i]))
         ELSE ScanChinese_no_reset(query, i + 1, chinese_chars)

\* the character loop of extract_search_keywords: chinese_chars is the run so far
RECURSIVE ScanChinese(_, _, _)
ScanChinese(query, i, chinese_chars) ==
    IF i > Len(query)
    THEN IF Len(chinese_chars) >= 2 THEN add_chinese_ngrams(chinese_chars) ELSE {}
    ELSE IF CJK_PATTERN(query[i])
         THEN ScanChinese(query, i + 1, Append(chinese_chars, query[i]))
         ELSE (IF Len(chinese_chars) >= 2 THEN add_chinese_ngrams(chinese_chars) ELSE {})
              \cup ScanChinese(query, i + 1, <<>>)

extract_search_keywords(query) ==
    EN_WORD_PATTERN(query) \cup NUM_PATTERN(query) \cup ScanChinese(query, 1, <<>>)

----------------------------------------------------------------------------
(* Search weights, in tenths *)

WEIGHT_KEYWORD == 5
WEIGHT_IMPORTANCE == 3
WEIGHT_RECENCY == 2

\* the ticks of one day (86400 s): recency = 1 / (1 + age / day)
TicksPerDay == 1

----------------------------------------------------------------------------
(* The store: table memories and search_memories *)

\* INSERT INTO memories (content, importance, source_session): the new row
MemoryRow(id, content, importance, source_session, t) ==
    [id |-> id, content |-> content, importance |-> importance,
     source_session |-> source_session, created_at |-> t, last_accessed |-> t]

\* the hit_count expression: one CASE WHEN content ILIKE ... THEN 1 ELSE 0 per keyword
hit_count(m, keywords) == Cardinality({ kw \in keywords : ILike(m.content, kw) })

\* a WHERE clause written with LIKE: the match is case-sensitive
where_clause_like(m, keywords) == \E kw \in keywords : Contains(m.content, kw)

\* the WHERE clause: content ILIKE kw1 OR content ILIKE kw2 ...
where_clause(m, keywords) == \E kw \in keywords : ILike(m.content, kw)

\* the score expression as a fraction ScoreNum / ScoreDen (times 10), with
\* max_hits = len(keywords) and recency = 1 / (1 + age in days)
ScoreDen(m, keywords, t) ==
    10 * Cardinality(keywords) * (TicksPerDay + (t - m.created_at))

ScoreNum(m, keywords, t) ==
      WEIGHT_KEYWORD * hit_count(m, keywords) * 10 * (TicksPerDay + (t - m.created_at))
    + WEIGHT_IMPORTANCE * m.importance * Cardinality(keywords)
        * (TicksPerDay + (t - m.created_at))
    + WEIGHT_RECENCY * TicksPerDay * 10 * Cardinality(keywords)

\* a row of the SELECT: id, content, importance, created_at, hit_count, score
ResultRow(m, keywords, t) ==
    [id |-> m.id, content |-> m.content, importance |-> m.importance,
     created_at |-> m.created_at, hit_count |-> hit_count(m, keywords),
     score |-> <<ScoreNum(m, keywords, t), ScoreDen(m, keywords, t)>>]

\* score(a) > score(b), by cross multiplication (both denominators are positive)
ScoreGreater(a, b) == a.score[1] * b.score[2] > b.score[1] * a.score[2]

\* ORDER BY score DESC, importance ASC, created_at DESC
order_by_importance_asc(a, b) ==
    \/ ScoreGreater(a, b)
    \/ /\ ~ScoreGreater(b, a)
       /\ \/ a.importance < b.importance
          \/ a.importance = b.importance /\ a.created_at > b.created_at

\* ORDER BY score DESC, importance DESC, created_at DESC: a sorts strictly before b
order_by(a, b) ==
    \/ ScoreGreater(a, b)
    \/ /\ ~ScoreGreater(b, a)
       /\ \/ a.importance > b.importance
          \/ a.importance = b.importance /\ a.created_at > b.created_at

\* the orders the query may return the rows of set S in: every arrangement that
\* agrees with ORDER BY (rows that tie on all three keys come in any order)
Arrangements(S) ==
    { f \in [1..Cardinality(S) -> S] :
        /\ \A i, j \in 1..Cardinality(S) : i # j => f[i] # f[j]
        /\ \A i, j \in 1..Cardinality(S) : i < j => ~order_by(f[j], f[i]) }

\* LIMIT n
Limit(f, n) == SubSeq(f, 1, Min(n, Len(f)))

\* conn.fetch(sql, *params): the possible results of the SELECT
Fetch(mems, keywords, limit, t) ==
    { Limit(f, limit) :
        f \in Arrangements({ ResultRow(m, keywords, t) :
                                m \in { x \in mems : where_clause(x, keywords) } }) }

\* the UPDATE without its WHERE id = ANY(...): every row is stamped
Stamp_every_row(mems, ids, t) ==
    { [m EXCEPT !.last_accessed = t] : m \in mems }

\* UPDATE memories SET last_accessed = NOW() WHERE id = ANY(ids)
Stamp(mems, ids, t) ==
    { IF m.id \in ids THEN [m EXCEPT !.last_accessed = t] ELSE m : m \in mems }

\* get_pool(): what it leaves in _pool and whether it raises; fault "connect"
\* is create_pool (or the acquire that follows) failing
get_pool(p, database_url, fault) ==
    IF p = "open"
    THEN [pool |-> "open", raised |-> fault = "connect"]
    ELSE IF ~database_url
         THEN [pool |-> "none", raised |-> TRUE]
         ELSE IF fault = "connect"
              THEN [pool |-> "none", raised |-> TRUE]
              ELSE [pool |-> "open", raised |-> FALSE]

Faults == {"ok", "connect", "query", "update"}

\* search_memories from `pool = await get_pool()` on, with the keywords extracted
SearchStore(keywords, limit, fault, mems, p, database_url, t) ==
    IF get_pool(p, database_url, fault).raised \/ fault = "query"
    THEN { [ret |-> <<>>, raised |-> TRUE, memories |-> mems,
            pool |-> get_pool(p, database_url, fault).pool, acquired |-> TRUE] }
    ELSE { IF results # <<>> /\ fault = "update"
           THEN [ret |-> <<>>, raised |-> TRUE, memories |-> mems,
                 pool |-> "open", acquired |-> TRUE]
           ELSE [ret |-> results, raised |-> FALSE,
                 memories |-> Stamp(mems, { results[i].id : i \in 1..Len(results) }, t),
                 pool |-> "open", acquired |-> TRUE]
           : results \in Fetch(mems, keywords, limit, t) }

\* search_memories with the pool taken before the keywords are looked at
search_memories_pool_first(query, limit, fault, mems, p, database_url, t) ==
    UNION { IF keywords = {}
            THEN { [ret |-> <<>>, raised |-> get_pool(p, database_url, fault).raised,
                    memories |-> mems, pool |-> get_pool(p, database_url, fault).pool,
                    acquired |-> TRUE] }
            ELSE SearchStore(keywords, limit, fault, mems, p, database_url, t)
            : keywords \in { extract_search_keywords(query) } }

\* search_memories(query, limit) on table mems at time t: its possible outcomes.
\* ret is the returned list, raised whether an exception leaves the function,
\* acquired whether get_pool was called.
search_memories(query, limit, fault, mems, p, database_url, t) ==
    UNION { IF keywords = {}
            THEN { [ret |-> <<>>, raised |-> FALSE, memories |-> mems, pool |-> p,
                    acquired |-> FALSE] }
            ELSE SearchStore(keywords, limit, fault, mems, p, database_url, t)
            : keywords \in { extract_search_keywords(query) } }

\* save_memory with an existence check: INSERT ... WHERE NOT EXISTS (a row of
\* that content)
save_memory_if_absent(content, importance, source_session, fault, mems, id, p, database_url, t) ==
    LET gp == get_pool(p, database_url, fault) IN
    IF gp.raised \/ fault = "query"
    THEN [raised |-> TRUE, memories |-> mems, nextId |-> id, pool |-> gp.pool]
    ELSE IF \E m \in mems : m.content = content
    THEN [raised |-> FALSE, memories |-> mems, nextId |-> id, pool |-> gp.pool]
    ELSE [raised |-> FALSE,
          memories |-> mems \cup {MemoryRow(id, content, importance, source_session, t)},
          nextId |-> id + 1, pool |-> gp.pool]

\* save_memory inside one transaction per session: an insert that fails takes
\* the session's earlier inserts back
save_memory_rollback(content, importance, source_session, fault, mems, id, p, database_url, t) ==
    LET gp == get_pool(p, database_url, fault) IN
    IF gp.raised \/ fault = "query"
    THEN [raised |-> TRUE, memories |-> {m \in mems : m.source_session # source_session},
          nextId |-> id, pool |-> gp.pool]
    ELSE [raised |-> FALSE,
          memories |-> mems \cup {MemoryRow(id, content, importance, source_session, t)},
          nextId |-> id + 1, pool |-> gp.pool]

\* save_memory as an upsert on content: the rows that hold the content are
\* replaced by the new row
save_memory_upsert(content, importance, source_session, fault, mems, id, p, database_url, t) ==
    LET gp == get_pool(p, database_url, fault) IN
    IF gp.raised \/ fault = "query"
    THEN [raised |-> TRUE, memories |-> mems, nextId |-> id, pool |-> gp.pool]
    ELSE [raised |-> FALSE,
          memories |-> {m \in mems : m.content # content}
                          \cup {MemoryRow(id, content, importance, source_session, t)},
          nextId |-> id + 1, pool |-> gp.pool]

\* save_memory(content, importance, source_session): the insert, or the raise
save_memory(content, importance, source_session, fault, mems, id, p, database_url, t) ==
    LET gp == get_pool(p, database_url, fault) IN
    IF gp.raised \/ fault = "query"
    THEN [raised |-> TRUE, memories |-> mems, nextId |-> id, pool |-> gp.pool]
    ELSE [raised |-> FALSE,
          memories |-> mems \cup {MemoryRow(id, content, importance, source_session, t)},
          nextId |-> id + 1, pool |-> gp.pool]

\* save_message(session_id, role, content, model): the insert, or the raise
save_message(session_id, role, content, fault, convs, p, database_url) ==
    IF get_pool(p, database_url, fault).raised \/ fault = "query"
    THEN [raised |-> TRUE, conversations |-> convs,
          pool |-> get_pool(p, database_url, fault).pool]
    ELSE [raised |-> FALSE,
          conversations |-> Append(convs, [session_id |-> session_id, role |-> role,
                                           content |-> content]),
          pool |-> "open"]

\* the LIMIT of get_recent_memories(limit=80) in the pipeline
RecentLimit == 80

\* get_recent_memories(limit): SELECT ... ORDER BY created_at DESC LIMIT n; rows
\* created at the same time come in any order
get_recent_memories(limit, fault, mems, p, database_url) ==
    IF get_pool(p, database_url, fault).raised \/ fault = "query"
    THEN { [raised |-> TRUE, rows |-> <<>>, pool |-> get_pool(p, database_url, fault).pool] }
    ELSE { [raised |-> FALSE, rows |-> Limit(f, limit), pool |-> "open"] :
            f \in { g \in [1..Cardinality(mems) -> mems] :
                      /\ \A i, j \in 1..Cardinality(mems) : i # j => g[i] # g[j]
                      /\ \A i, j \in 1..Cardinality(mems) :
                            i < j => g[i].created_at >= g[j].created_at } }

\* get_all_memories_count(): the store is read, nothing changes
get_all_memories_count(fault, p, database_url) ==
    IF get_pool(p, database_url, fault).raised \/ fault = "query"
    THEN [raised |-> TRUE, pool |-> get_pool(p, database_url, fault).pool]
    ELSE [raised |-> FALSE, pool |-> "open"]

----------------------------------------------------------------------------
(* The extraction client: extract_memories *)

\* the ways the extraction call can end; "array" is a 200 reply whose text
\* parses as a JSON array. elems are the elements of the array in the body, of
\* a 200 reply or of a reply with another status.
ReplyFailures == {"transport_error", "timeout", "status", "not_json", "not_array"}

\* elements of a reply array: a kind, and the content and importance it carries
\*   object          {"content": c, "importance": n}, n an integer
\*   no_importance   {"content": c}
\*   bad_importance  {"content": c, "importance": x}, int(x) raises
\*   no_content      an object without "content"
\*   not_object      an element that is not an object
Element(kind, content, importance) ==
    [kind |-> kind, content |-> content, importance |-> importance]

\* the validation loop of extract_memories over the elements from index i on
RECURSIVE valid_memories(_, _)
valid_memories(elems, i) ==
    IF i > Len(elems)
    THEN <<>>
    ELSE IF elems[i].kind \in {"object", "no_importance"}
         THEN <<[content |-> elems[i].content,
                 importance |-> IF elems[i].kind = "object"
                                THEN elems[i].importance ELSE 5]>>
              \o valid_memories(elems, i + 1)
         ELSE valid_memories(elems, i + 1)

\* extract_memories without the status check: the body is parsed whatever the
\* status
extract_memories_any_status(reply, api_key) ==
    IF ~api_key
    THEN <<>>
    ELSE IF reply.kind \notin {"array", "status"}
         THEN <<>>
         ELSE IF \E i \in 1..Len(reply.elems) : reply.elems[i].kind = "bad_importance"
              THEN <<>>
              ELSE valid_memories(reply.elems, 1)

\* extract_memories(messages, existing_memories) given how the call ended: the
\* list it returns. It never raises: every failure, int() of a bad importance
\* included, ends in `except Exception: return []`.
extract_memories(reply, api_key) ==
    IF ~api_key
    THEN <<>>
    ELSE IF reply.kind # "array"
         THEN <<>>
         ELSE IF \E i \in 1..Len(reply.elems) : reply.elems[i].kind = "bad_importance"
              THEN <<>>
              ELSE valid_memories(reply.elems, 1)

----------------------------------------------------------------------------
(* The curation pipeline: process_memories_background *)

META_BLACKLIST ==
    { <<35760, 24518, 24211>>,
      <<35760, 24518, 31995, 32479>>,
      <<26816, 32034>>,
      <<27809, 26377, 34987, 35760, 24405>>,
      <<27809, 26377, 34987, 25552, 21462>>,
      <<35760, 24518, 36951, 28431>>,
      <<23578, 26410, 34987, 35760, 24405>>,
      <<20889, 20837, 19981, 23436, 25972>>,
      <<26816, 32034, 21151, 33021>>,
      <<31995, 32479, 27809, 26377, 36820, 22238>>,
      <<20851, 38190, 35789, 21305, 37197>>,
      <<35821, 20041, 21305, 37197>>,
      <<35821, 20041, 26816, 32034>>,
      <<38408, 20540>>,
      <<25968, 25454, 24211>>,
      <<115, 101, 101, 100>>,                      \* "seed"
      <<23548, 20837>>,
      <<37096, 32626>>,
      <<98, 117, 103>>,                            \* "bug"
      <<100, 101, 98, 117, 103>>,                  \* "debug"
      <<31471, 21475>>,
      <<32593, 20851>> }

\* a filter that folds case before it looks for a term
is_meta_ignoring_case(content) ==
    \E kw \in META_BLACKLIST : Contains(LowerStr(content), LowerStr(kw))

\* any(kw in content for kw in META_BLACKLIST)
is_meta(content) == \E kw \in META_BLACKLIST : Contains(content, kw)

\* the filter loop: the candidates that are appended to filtered_memories
RECURSIVE filtered_memories(_, _)
filtered_memories(new_memories, i) ==
    IF i > Len(new_memories)
    THEN <<>>
    ELSE IF is_meta(new_memories[i].content)
         THEN filtered_memories(new_memories, i + 1)
         ELSE <<new_memories[i]>> \o filtered_memories(new_memories, i + 1)

\* a run before its task is created
NoRun ==
    [pc |-> "none", log |-> <<>>, existing |-> <<>>, reply |-> "none",
     new_memories |-> <<>>, filtered |-> <<>>, saved |-> 0,
     raised_at |-> "none", escaped |-> FALSE,
     launches |-> 0, user_msg |-> <<>>, assistant_msg |-> <<>>]

\* a pipeline without the try/except: the exception leaves the coroutine
uncaught(run, step) ==
    [run EXCEPT !.pc = "abandoned", !.raised_at = step, !.escaped = TRUE]

\* a handler that leaves the run at the statement that raised, to try it again
retry_statement(run, step) ==
    [run EXCEPT !.raised_at = step]

\* `except Exception as e: print(...)`: the run ends, nothing is raised
except_Exception(run, step) ==
    [run EXCEPT !.pc = "abandoned", !.raised_at = step, !.escaped = FALSE]

\* a pipeline that reads the context right after the user row is written
next_statement_context_early(step) ==
    CASE step = "save_user" -> "get_recent_memories"
      [] step = "save_assistant" -> "done"
      [] step = "get_recent_memories" -> "extract_memories"
      [] step = "extract_memories" -> "save_memory"
      [] step = "save_memory" -> "save_memory"
      [] OTHER -> "done"

\* the statement of process_memories_background that follows step
next_statement(step) ==
    CASE step = "save_user" -> "save_assistant"
      [] step = "save_assistant" -> "get_recent_memories"
      [] step = "get_recent_memories" -> "extract_memories"
      [] step = "extract_memories" -> "save_memory"
      [] step = "save_memory" -> "save_memory"
      [] OTHER -> "done"

\* the run after step completed normally
Completed(run, step) == [run EXCEPT !.pc = next_statement(step), !.log = Append(@, step)]

----------------------------------------------------------------------------
(* Inputs *)

\* queries: the first four have no keyword
Queries ==
    { <<>>,                                        \* ""
      <<32>>,                                      \* " "
      <<97, 32, 26149>>,                           \* "a " U+6625: a lone letter, a lone CJK
      <<63, 33>>,                                  \* "?!"
      <<71, 65, 82, 65, 78, 32, 26149, 33410>>,    \* "GARAN " U+6625 U+8282
      <<103, 97, 114, 97, 110, 32, 50, 48>>,       \* "garan 20"
      <<65298, 65296>>,                            \* fullwidth "20"
      <<26149, 33410, 24178, 20102>> }             \* U+6625 U+8282 U+5E72 U+4E86

Limits == 0..MaxLimit

----------------------------------------------------------------------------------------------------------------------------------------
(* The store on its own: search_memories over a table of earlier inserts *)

\* rows that save_memory inserted earlier, with distinct ids. At time 1 rows 1
\* and 2 tie on score for "GARAN ..." (importance decides), rows 4 and 5 tie on
\* score and importance for the CJK query (created_at decides), and rows 5 and 6
\* agree on every ORDER BY key.
RowPool ==
    { MemoryRow(1, <<71, 97, 114, 97, 110, 26149, 33410>>, 5, "s1", 0),
      MemoryRow(2, <<103, 97, 114, 97, 110>>, 10, "s1", 1),
      MemoryRow(3, <<20170, 22825, 50, 48>>, 1, "s2", 1),
      MemoryRow(4, <<26149, 33410, 32, 24178, 20102>>, 5, "s2", 0),
      MemoryRow(5, <<71, 97, 114, 97, 110, 26149, 33410>>, 5, "s3", 1),
      MemoryRow(6, <<71, 97, 114, 97, 110, 26149, 33410>>, 5, "s3", 1) }

NoSearch ==
    [called |-> FALSE, query |-> <<>>, limit |-> 0, fault |-> "ok",
     pool_before |-> "none", at |-> 0, ret |-> <<>>, raised |-> FALSE, acquired |-> FALSE]

Environment(enabled, database_url) ==
    [MEMORY_ENABLED |-> enabled, DATABASE_URL |-> database_url]

InitStore ==
    /\ memories \in { T \in SUBSET RowPool : Cardinality(T) <= MaxMem }
    /\ conversations = <<>>
    /\ nextId = 7
    /\ now = 1
    /\ pool \in {"none", "open"}
    /\ config \in { Environment(TRUE, u) : u \in BOOLEAN }
    /\ (pool = "open" => config.DATABASE_URL)
    /\ (memories # {} => config.DATABASE_URL)
    /\ lastSearch = NoSearch
    /\ req = <<>>
    /\ pipe = <<>>
    /\ app = "serving"
    /\ imp = <<>>
    /\ input = <<>>
    /\ output = <<>>
    /\ tasks = <<>>
    /\ pools = {}

Tick ==
    /\ now < MaxClock
    /\ now' = now + 1
    /\ UNCHANGED <<memories, conversations, nextId, pool, config, tasks, pools, app, imp, input, output, lastSearch, req, pipe>>

\* One call of search_memories on the drawn table. A call reads content,
\* importance and created_at and writes last_accessed only, so its result depends
\* on no earlier call: each behaviour makes one.
SearchCall ==
    /\ ~lastSearch.called
    /\ \E query \in Queries, limit \in Limits, fault \in Faults :
        \E o \in search_memories(query, limit, fault, memories, pool, config.DATABASE_URL, now) :
            /\ memories' = o.memories
            /\ pool' = o.pool
            /\ lastSearch' = [called |-> TRUE, query |-> query, limit |-> limit,
                              fault |-> fault, pool_before |-> pool,
                              at |-> now, ret |-> o.ret, raised |-> o.raised,
                              acquired |-> o.acquired]
            /\ UNCHANGED <<conversations, nextId, now, config, tasks, pools, app, imp, input, output, req, pipe>>

NextStore == Tick \/ SearchCall

SpecStore == InitStore /\ [][NextStore]_vars

----------------------------------------------------------------------------
(* extract_search_keywords applied to one query *)

MaxStrLen == 4      \* code points of a query

\* "G", "a", "2", " ", U+6625, U+8282, U+3400, fullwidth "2" (U+FF12)
Alphabet == {71, 97, 50, 32, 26149, 33410, 13312, 65298}

Strings == UNION { [1..n -> Alphabet] : n \in 0..MaxStrLen }

NoOutput == [returned |-> FALSE, value |-> {}]

InitKeywords ==
    /\ input \in Strings
    /\ output = NoOutput
    /\ tasks = <<>>
    /\ pools = {}
    /\ memories = {}
    /\ conversations = <<>>
    /\ nextId = 1
    /\ now = 0
    /\ pool = "none"
    /\ config = Environment(TRUE, TRUE)
    /\ lastSearch = NoSearch
    /\ req = <<>>
    /\ pipe = <<>>
    /\ app = "serving"
    /\ imp = <<>>

\* keywords = extract_search_keywords(query)
KeywordsCall ==
    /\ ~output.returned
    /\ output' = [returned |-> TRUE, value |-> extract_search_keywords(input)]
    /\ UNCHANGED <<memories, conversations, nextId, now, pool, config, tasks, pools, app, lastSearch, req, pipe,
                   imp, input>>

NextKeywords == KeywordsCall

SpecKeywords == InitKeywords /\ [][NextKeywords]_vars

----------------------------------------------------------------------------
(* The gateway: chat_completions, stream_and_capture and the pipeline runs *)

MaxCand == 2        \* elements of an extraction reply
MaxLines == 2       \* lines of an upstream stream

MAX_MEMORIES_INJECT == 15

\* the chat requests of a behaviour; a request's session id is its name
Requests == {"r1"}

UserMessages ==
    { <<>>,                                        \* no user message
      <<63>>,                                      \* "?": no keyword
      <<20859, 29483>> }                           \* U+517B U+732B

AssistantMessages == { <<>>, <<111, 107>> }        \* "", "ok"

SystemPrompts == { <<>>, <<80>> }                  \* no system_prompt.txt, "P"

Elements ==
    { Element("object", <<29992, 25143, 20859, 29483>>, 5),    \* U+7528 U+6237 U+517B U+732B
      Element("object", <<20462, 98, 117, 103>>, 10),          \* U+4FEE "bug"
      Element("object", <<66, 117, 103>>, 11),                 \* "Bug"
      Element("no_importance", <<29992, 25143, 20859, 29483>>, 0),
      Element("bad_importance", <<29992, 25143>>, 0),
      Element("no_content", <<>>, 0),
      Element("not_object", <<>>, 0) }

ExtractionReplies ==
    { [kind |-> k, elems |-> <<>>] : k \in ReplyFailures }
    \cup { [kind |-> "status",
            elems |-> <<Element("object", <<29992, 25143, 20859, 29483>>, 5)>>] }
    \cup { [kind |-> "array", elems |-> e] :
            e \in UNION { [1..n -> Elements] : n \in 0..MaxCand } }

StoreFaults == {"ok", "connect", "query"}

GatewayEnvironment(enabled, database_url, api_key, system_prompt) ==
    [MEMORY_ENABLED |-> enabled, DATABASE_URL |-> database_url,
     API_KEY |-> api_key, SYSTEM_PROMPT |-> system_prompt]

\* a request before it arrives
NoRequest ==
    [pc |-> "idle", stream |-> FALSE, user_message |-> <<>>, fault |-> "ok", search |-> "none",
     prompt |-> [base |-> <<>>, lines |-> <<>>], forwarded |-> FALSE,
     assistant_msg |-> <<>>, yielded |-> 0, status |-> 0, sent |-> FALSE,
     upstream |-> 0]

\* the store a behaviour starts from: empty, or as an earlier turn "s0" left it
PriorStores ==
    { [memories |-> {}, conversations |-> <<>>, nextId |-> 1],
      [memories |-> {MemoryRow(1, <<29992, 25143, 20859, 29483>>, 5, "s0", 0)},
       conversations |-> <<[session_id |-> "s0", role |-> "user", content |-> <<20859, 29483>>],
                           [session_id |-> "s0", role |-> "assistant", content |-> <<111, 107>>]>>,
       nextId |-> 2] }

Init ==
    /\ \E st \in PriorStores :
          /\ memories = st.memories
          /\ conversations = st.conversations
          /\ nextId = st.nextId
    /\ now = 0
    /\ pool = "none"
    /\ config \in { GatewayEnvironment(e, u, k, sp) :
                      e \in BOOLEAN, u \in BOOLEAN, k \in BOOLEAN, sp \in SystemPrompts }
    /\ (memories # {} => config.DATABASE_URL /\ config.MEMORY_ENABLED)
    /\ lastSearch = NoSearch
    /\ req = [r \in Requests |-> NoRequest]
    /\ pipe = [r \in Requests |-> NoRun]
    /\ app = "starting"
    /\ imp = <<>>
    /\ input = <<>>
    /\ output = <<>>
    /\ tasks = <<>>
    /\ pools = {}

\* lifespan without the try/except around init_tables: a store that cannot be
\* initialised ends the start-up
lifespan_unguarded(env, p, fault) ==
    IF ~env.MEMORY_ENABLED
    THEN [app |-> "serving", pool |-> p]
    ELSE [app |-> IF get_pool(p, env.DATABASE_URL, fault).raised \/ fault = "query"
                  THEN "failed" ELSE "serving",
          pool |-> get_pool(p, env.DATABASE_URL, fault).pool]

\* lifespan up to its yield: with memory enabled init_tables and
\* get_all_memories_count run inside try/except Exception; fault "connect" is
\* get_pool failing, "query" a statement on the pool failing
lifespan(env, p, fault) ==
    IF ~env.MEMORY_ENABLED
    THEN [app |-> "serving", pool |-> p]
    ELSE [app |-> "serving", pool |-> get_pool(p, env.DATABASE_URL, fault).pool]

\* the application starts
Startup ==
    /\ app = "starting"
    /\ \E fault \in StoreFaults :
          \E o \in { lifespan(config, pool, fault) } :
             /\ app' = o.app
             /\ pool' = o.pool
    /\ UNCHANGED <<memories, conversations, nextId, now, config, tasks, pools, lastSearch, req, pipe,
                   imp, input, output>>

\* build_system_prompt_with_memories without the try/except
build_system_prompt_unguarded(user_message, fault, mems, p, env, t) ==
    IF ~env.MEMORY_ENABLED
    THEN { [prompt |-> [base |-> env.SYSTEM_PROMPT, lines |-> <<>>], raised |-> FALSE,
            memories |-> mems, pool |-> p, search |-> "none"] }
    ELSE { [prompt |-> [base |-> env.SYSTEM_PROMPT,
                        lines |-> [i \in 1..Len(o.ret) |-> o.ret[i].content]],
            raised |-> o.raised, memories |-> o.memories, pool |-> o.pool,
            search |-> IF o.raised THEN "raised" ELSE "returned"] :
            o \in search_memories(user_message, MAX_MEMORIES_INJECT, fault, mems, p,
                                  env.DATABASE_URL, t) }

\* build_system_prompt_with_memories(user_message): the prompt it returns; lines
\* are the "- content" lines appended under the header, none when it returns
\* SYSTEM_PROMPT itself
build_system_prompt_with_memories(user_message, fault, mems, p, env, t) ==
    IF ~env.MEMORY_ENABLED
    THEN { [prompt |-> [base |-> env.SYSTEM_PROMPT, lines |-> <<>>], raised |-> FALSE,
            memories |-> mems, pool |-> p, search |-> "none"] }
    ELSE { IF o.raised
           THEN [prompt |-> [base |-> env.SYSTEM_PROMPT, lines |-> <<>>], raised |-> FALSE,
                 memories |-> o.memories, pool |-> o.pool, search |-> "raised"]
           ELSE [prompt |-> [base |-> env.SYSTEM_PROMPT,
                             lines |-> [i \in 1..Len(o.ret) |-> o.ret[i].content]],
                 raised |-> FALSE, memories |-> o.memories, pool |-> o.pool,
                 search |-> "returned"] :
            o \in search_memories(user_message, MAX_MEMORIES_INJECT, fault, mems, p,
                                  env.DATABASE_URL, t) }

\* chat_completions up to the upstream call: the 500 without API_KEY, the last
\* user message, the system prompt. A stream request returns its
\* StreamingResponse (status 200) here and goes on in stream_and_capture. The
\* search meets store fault `fault`; the request keeps it when the search raised.
ChatReceive(r) ==
    /\ app = "serving"
    /\ req[r].pc = "idle"
    /\ \E user_message \in UserMessages, stream \in BOOLEAN, fault \in Faults :
          IF ~config.API_KEY
          THEN /\ req' = [req EXCEPT ![r] = [@ EXCEPT !.pc = "done", !.status = 500,
                                                    !.sent = TRUE]]
               /\ UNCHANGED <<memories, pool>>
          ELSE IF config.MEMORY_ENABLED /\ user_message # <<>>
          THEN \E o \in build_system_prompt_with_memories(user_message, fault, memories,
                                                          pool, config, now) :
                  /\ memories' = o.memories
                  /\ pool' = o.pool
                  /\ req' = [req EXCEPT ![r] =
                        IF o.raised
                        THEN [@ EXCEPT !.pc = "done", !.user_message = user_message,
                                       !.stream = stream, !.fault = fault,
                                       !.search = o.search, !.status = 500, !.sent = TRUE]
                        ELSE [@ EXCEPT !.pc = IF stream THEN "streaming" ELSE "upstream",
                                       !.user_message = user_message, !.stream = stream,
                                       !.fault = IF o.search = "raised" THEN fault ELSE "ok",
                                       !.search = o.search,
                                       !.prompt = o.prompt, !.forwarded = TRUE,
                                       !.status = IF stream THEN 200 ELSE 0]]
          ELSE /\ req' = [req EXCEPT ![r] =
                        [@ EXCEPT !.pc = IF stream THEN "streaming" ELSE "upstream",
                                  !.user_message = user_message, !.stream = stream,
                                  !.prompt = [base |-> config.SYSTEM_PROMPT, lines |-> <<>>],
                                  !.forwarded = TRUE,
                                  !.status = IF stream THEN 200 ELSE 0]]
               /\ UNCHANGED <<memories, pool>>
    /\ UNCHANGED <<conversations, nextId, now, config, tasks, pools, app, imp, input, output, lastSearch, pipe>>

\* the task created without looking at MEMORY_ENABLED
create_task_memory_off(run, env, user_message, assistant_msg) ==
    IF user_message # <<>> /\ assistant_msg # <<>>
    THEN [run EXCEPT !.pc = "save_user", !.launches = @ + 1,
                     !.user_msg = user_message, !.assistant_msg = assistant_msg]
    ELSE run

\* `if MEMORY_ENABLED and user_message and assistant_msg: asyncio.create_task(...)`
create_task(run, env, user_message, assistant_msg) ==
    IF env.MEMORY_ENABLED /\ user_message # <<>> /\ assistant_msg # <<>>
    THEN [run EXCEPT !.pc = "save_user", !.launches = @ + 1,
                     !.user_msg = user_message, !.assistant_msg = assistant_msg]
    ELSE run

\* the non-streaming branch from the upstream reply to the `return` inside
\* `async with httpx.AsyncClient`: the task is created, the client not yet closed
ChatUpstreamReply(r) ==
    /\ req[r].pc = "upstream"
    /\ \E status \in {200, 500}, assistant_msg \in AssistantMessages :
          IF status = 200
          THEN /\ req' = [req EXCEPT ![r] = [@ EXCEPT !.pc = "closing", !.status = 200,
                                                    !.upstream = 200,
                                                    !.assistant_msg = assistant_msg]]
               /\ pipe' = [pipe EXCEPT ![r] =
                              create_task(@, config, req[r].user_message, assistant_msg)]
          ELSE /\ req' = [req EXCEPT ![r] = [@ EXCEPT !.pc = "closing", !.status = status,
                                                    !.upstream = status]]
               /\ UNCHANGED pipe
    /\ UNCHANGED <<memories, conversations, nextId, now, pool, config, tasks, pools, app, imp, input, output, lastSearch>>

\* `return JSONResponse(...)` leaves the `async with`: the client is closed, which
\* awaits, and only then the handler returns and the response is sent
ChatReturn(r) ==
    /\ req[r].pc = "closing"
    /\ req' = [req EXCEPT ![r] = [@ EXCEPT !.pc = "done", !.sent = TRUE]]
    /\ UNCHANGED <<memories, conversations, nextId, now, pool, config, tasks, pools, app, imp, input, output, lastSearch, pipe>>

\* stream_and_capture: one upstream line is yielded to the client; a data line
\* with a content delta is also captured
StreamLine(r) ==
    /\ req[r].pc = "streaming"
    /\ req[r].yielded < MaxLines
    /\ \E delta \in AssistantMessages :
          req' = [req EXCEPT ![r] = [@ EXCEPT !.yielded = @ + 1,
                                            !.assistant_msg = @ \o delta]]
    /\ UNCHANGED <<memories, conversations, nextId, now, pool, config, tasks, pools, app, imp, input, output, lastSearch, pipe>>

\* stream_and_capture: the upstream stream has ended, both clients are closed,
\* the task is created and the generator ends. The status of the upstream
\* response is never read in this branch: status is what an observer of the
\* upstream saw, 0 when nobody looked
StreamClose(r, status) ==
    /\ req[r].pc = "streaming"
    /\ req' = [req EXCEPT ![r] = [@ EXCEPT !.pc = "done", !.sent = TRUE,
                                          !.upstream = status]]
    /\ pipe' = [pipe EXCEPT ![r] =
                   create_task(@, config, req[r].user_message, req[r].assistant_msg)]
    /\ UNCHANGED <<memories, conversations, nextId, now, pool, config, tasks, pools, app, imp, input, output, lastSearch>>

\* the end of a stream, its upstream status unobserved
StreamEnd(r) == StreamClose(r, 0)

\* stream_and_capture: the upstream read raises or the client goes away; the
\* generator is left before it reaches create_task
StreamAbort(r) ==
    /\ req[r].pc = "streaming"
    /\ req' = [req EXCEPT ![r] = [@ EXCEPT !.pc = "done"]]
    /\ UNCHANGED <<memories, conversations, nextId, now, pool, config, tasks, pools, app, imp, input, output, lastSearch, pipe>>

\* `await save_message(session_id, "user", user_msg, model)`
PipeSaveUser(r) ==
    /\ pipe[r].pc = "save_user"
    /\ \E fault \in StoreFaults : \E o \in { save_message(r, "user", pipe[r].user_msg, fault,
                                                      conversations, pool, config.DATABASE_URL) } :
          /\ conversations' = o.conversations
          /\ pool' = o.pool
          /\ pipe' = [pipe EXCEPT ![r] = IF o.raised THEN except_Exception(@, "save_user")
                                         ELSE Completed(@, "save_user")]
    /\ UNCHANGED <<memories, nextId, now, config, tasks, pools, app, imp, input, output, lastSearch, req>>

\* `await save_message(session_id, "assistant", assistant_msg, model)`
PipeSaveAssistant(r) ==
    /\ pipe[r].pc = "save_assistant"
    /\ \E fault \in StoreFaults : \E o \in { save_message(r, "assistant", pipe[r].assistant_msg, fault,
                                                      conversations, pool, config.DATABASE_URL) } :
          /\ conversations' = o.conversations
          /\ pool' = o.pool
          /\ pipe' = [pipe EXCEPT ![r] = IF o.raised THEN except_Exception(@, "save_assistant")
                                         ELSE Completed(@, "save_assistant")]
    /\ UNCHANGED <<memories, nextId, now, config, tasks, pools, app, imp, input, output, lastSearch, req>>

\* `existing = await get_recent_memories(limit=80)` and existing_contents
PipeFetchContext(r) ==
    /\ pipe[r].pc = "get_recent_memories"
    /\ \E fault \in StoreFaults :
          \E o \in get_recent_memories(RecentLimit, fault, memories, pool, config.DATABASE_URL) :
             /\ pool' = o.pool
             /\ pipe' = [pipe EXCEPT ![r] =
                   IF o.raised THEN except_Exception(@, "get_recent_memories")
                   ELSE [Completed(@, "get_recent_memories") EXCEPT
                           !.existing = [i \in 1..Len(o.rows) |-> o.rows[i].content]]]
    /\ UNCHANGED <<memories, conversations, nextId, now, config, tasks, pools, app, imp, input, output, lastSearch, req>>

\* `new_memories = await extract_memories(...)` and the filter loop, which has no
\* await: the extraction call ends in reply, the candidates are filtered
PipeExtractFrom(r, replies) ==
    /\ pipe[r].pc = "extract_memories"
    /\ \E reply \in replies :
          \E new_memories \in { extract_memories(reply, config.API_KEY) } :
             pipe' = [pipe EXCEPT ![r] =
                   [Completed(@, "extract_memories") EXCEPT
                      !.reply = reply.kind,
                      !.new_memories = new_memories,
                      !.filtered = filtered_memories(new_memories, 1)]]
    /\ UNCHANGED <<memories, conversations, nextId, now, pool, config, tasks, pools, app, imp, input, output, lastSearch, req>>

\* the extraction step over every reply of the extraction model
PipeExtract(r) == PipeExtractFrom(r, ExtractionReplies)

\* one turn of `for mem in filtered_memories: await save_memory(...)`
PipeCommit(r) ==
    /\ pipe[r].pc = "save_memory"
    /\ pipe[r].saved < Len(pipe[r].filtered)
    /\ \E fault \in StoreFaults :
       \E o \in { save_memory(pipe[r].filtered[pipe[r].saved + 1].content,
                              pipe[r].filtered[pipe[r].saved + 1].importance,
                              r, fault, memories, nextId, pool, config.DATABASE_URL, now) } :
          /\ memories' = o.memories
          /\ nextId' = o.nextId
          /\ pool' = o.pool
          /\ pipe' = [pipe EXCEPT ![r] =
                IF o.raised THEN except_Exception(@, "save_memory")
                ELSE [Completed(@, "save_memory") EXCEPT !.saved = @ + 1]]
    /\ UNCHANGED <<conversations, now, config, tasks, pools, app, imp, input, output, lastSearch, req>>

\* the loop is over: `if filtered_memories: total = await get_all_memories_count()`
PipeCount(r) ==
    /\ pipe[r].pc = "save_memory"
    /\ pipe[r].saved = Len(pipe[r].filtered)
    /\ IF pipe[r].filtered = <<>>
       THEN /\ pipe' = [pipe EXCEPT ![r] = [@ EXCEPT !.pc = "done"]]
            /\ UNCHANGED pool
       ELSE \E fault \in StoreFaults :
            \E o \in { get_all_memories_count(fault, pool, config.DATABASE_URL) } :
               /\ pool' = o.pool
               /\ pipe' = [pipe EXCEPT ![r] =
                     IF o.raised THEN except_Exception(@, "get_all_memories_count")
                     ELSE Completed(@, "get_all_memories_count")]
    /\ UNCHANGED <<memories, conversations, nextId, now, config, tasks, pools, app, imp, input, output, lastSearch, req>>

Next ==
    \/ Tick
    \/ Startup
    \/ \E r \in Requests :
          \/ ChatReceive(r)
          \/ ChatUpstreamReply(r)
          \/ ChatReturn(r)
          \/ StreamLine(r)
          \/ StreamEnd(r)
          \/ StreamAbort(r)
          \/ PipeSaveUser(r)
          \/ PipeSaveAssistant(r)
          \/ PipeFetchContext(r)
          \/ PipeExtract(r)
          \/ PipeCommit(r)
          \/ PipeCount(r)

Spec == Init /\ [][Next]_vars

\* one step of the run of r, whichever statement it is at
PipeStep(r) ==
    \/ PipeSaveUser(r)
    \/ PipeSaveAssistant(r)
    \/ PipeFetchContext(r)
    \/ PipeExtract(r)
    \/ PipeCommit(r)
    \/ PipeCount(r)

\* the gateway started on an empty store, with memory on, an API key and a
\* system prompt
InitEnabled ==
    /\ Init
    /\ config.MEMORY_ENABLED /\ config.API_KEY /\ config.SYSTEM_PROMPT # <<>>
    /\ memories = {}

\* the event loop runs a task whose awaited call has returned or failed: a run
\* that can take a step takes it
SpecFair == InitEnabled /\ [][Next]_vars /\ \A r \in Requests : WF_vars(PipeStep(r))

\* the statuses an upstream answers with
UpstreamStatuses == {200, 500}

\* the end of a stream whose upstream status was observed
StreamEndObserved(r) == \E status \in UpstreamStatuses : StreamClose(r, status)

\* the request path alone, up to the launch of the run
NextTurn ==
    \/ Startup
    \/ \E r \in Requests :
          \/ ChatReceive(r)
          \/ ChatUpstreamReply(r)
          \/ ChatReturn(r)
          \/ StreamLine(r)
          \/ StreamEndObserved(r)
          \/ StreamAbort(r)

SpecTurn == Init /\ [][NextTurn]_vars

----------------------------------------------------------------------------
(* extract_memories applied to one reply of the extraction model *)

InitExtract ==
    /\ input \in { [reply |-> reply, API_KEY |-> k] : reply \in ExtractionReplies, k \in BOOLEAN }
    /\ output = [returned |-> FALSE, value |-> <<>>]
    /\ tasks = <<>>
    /\ pools = {}
    /\ memories = {}
    /\ conversations = <<>>
    /\ nextId = 1
    /\ now = 0
    /\ pool = "none"
    /\ config = Environment(TRUE, TRUE)
    /\ lastSearch = NoSearch
    /\ req = <<>>
    /\ pipe = <<>>
    /\ app = "serving"
    /\ imp = <<>>

\* new_memories = await extract_memories(messages, existing_memories)
ExtractCall ==
    /\ ~output.returned
    /\ output' = [returned |-> TRUE, value |-> extract_memories(input.reply, input.API_KEY)]
    /\ UNCHANGED <<memories, conversations, nextId, now, pool, config, tasks, pools, app, lastSearch, req, pipe,
                   imp, input>>

NextExtract == ExtractCall

SpecExtract == InitExtract /\ [][NextExtract]_vars

----------------------------------------------------------------------------
(* The import and export handlers *)

ImportIds == {"i1", "i2"}

\* one record of an import body: keys are the JSON keys it has
Item(content, importance, source_session, keys) ==
    [content |-> content, importance |-> importance, source_session |-> source_session,
     keys |-> keys]

\* mem.get("importance", 5)
get_importance(mem) == IF "importance" \in mem.keys THEN mem.importance ELSE 5

\* mem.get("source_session", "json-import")
get_source_session(mem) ==
    IF "source_session" \in mem.keys THEN mem.source_session ELSE "json-import"

\* SEED_MEMORIES of seed_memories.py, two entries of it
SEED_MEMORIES ==
    << Item(<<29992, 25143, 20859, 29483>>, 7, "", {"content", "importance"}),
       Item(<<66, 117, 103>>, 9, "", {"content", "importance"}) >>

\* bodies of POST /import/memories: the list under "memories"
JsonBodies ==
    { <<>>,
      << Item(<<29992, 25143, 20859, 29483>>, 5, "", {"content"}) >>,
      << Item(<<>>, 5, "", {"content", "importance"}),
         Item(<<29992, 25143, 20859, 29483>>, 8, "s0", {"content", "importance", "source_session"}) >> }

\* bodies of POST /import/text: the list under "lines"
TextBodies ==
    { <<>>,
      << <<29992, 25143, 20859, 29483>>, <<29992, 25143, 20859, 29483>> >>,
      << <<>>, <<66, 117, 103>> >> }

\* the importance score_memories gives to the lines of one request
ScoreChoices == {8}

\* score_memories(lines): every line with an importance chosen by the scoring model
score_memories(lines, importance) ==
    [k \in 1..Len(lines) |-> Item(lines[k], importance, "", {"content", "importance"})]

\* `scored = [{"content": t, "importance": 5} for t in lines]`
unscored(lines) ==
    [k \in 1..Len(lines) |-> Item(lines[k], 5, "", {"content", "importance"})]

\* the rows of table memories as objects {content, importance, source_session,
\* created_at}, in the order of their ids
RECURSIVE exported_rows(_)
exported_rows(mems) ==
    IF mems = {}
    THEN <<>>
    ELSE LET last == CHOOSE m \in mems : \A n \in mems : n.id <= m.id
         IN  Append(exported_rows(mems \ {last}),
                    Item(last.content, last.importance, last.source_session,
                         {"content", "importance", "source_session", "created_at"}))

\* get_all_memories(): the full memory set, or the raise
get_all_memories(fault, mems, p, database_url) ==
    LET gp == get_pool(p, database_url, fault) IN
    IF gp.raised \/ fault = "query"
    THEN [raised |-> TRUE, rows |-> <<>>, pool |-> gp.pool]
    ELSE [raised |-> FALSE, rows |-> exported_rows(mems), pool |-> gp.pool]

\* an import request before it arrives
NoImport ==
    [pc |-> "idle", kind |-> "none", batch |-> <<>>, i |-> 1, imported |-> 0, skipped |-> 0,
     status |-> "none", from_export |-> FALSE]

\* the loop index after `if not content: continue` has passed the records with
\* empty content from position i on (the seed loop has no such test)
RECURSIVE next_item(_, _, _)
next_item(kind, batch, i) ==
    IF i > Len(batch) THEN i
    ELSE IF kind # "seed" /\ batch[i].content = <<>> THEN next_item(kind, batch, i + 1)
    ELSE i

\* the handler enters its loop over batch
start_loop(run, kind, batch) ==
    [run EXCEPT !.pc = "check", !.kind = kind, !.batch = batch,
                !.i = next_item(kind, batch, 1)]

\* the handler returns {"error": ...}
return_error(run, why) == [run EXCEPT !.pc = "done", !.status = why]

\* the extraction replies of the run that is committing while imports arrive
CommittingReplies ==
    { [kind |-> "array", elems |-> <<>>],
      [kind |-> "array", elems |-> <<Element("object", <<29992, 25143, 20859, 29483>>, 5)>>],
      [kind |-> "array", elems |-> <<Element("object", <<>>, 5)>>] }

\* a turn whose pipeline run has reached its commit loop, over the store as start
\* was when the run fetched its context
CommittingRun(reply, start) ==
    [NoRun EXCEPT
       !.pc = "save_memory", !.launches = 1,
       !.user_msg = <<63>>, !.assistant_msg = <<111, 107>>,
       !.log = <<"save_user", "save_assistant", "get_recent_memories", "extract_memories">>,
       !.existing = LET rows == (CHOOSE o \in get_recent_memories(RecentLimit, "ok", start,
                                                                   "open", TRUE) : TRUE).rows
                    IN  [k \in 1..Len(rows) |-> rows[k].content],
       !.reply = reply.kind,
       !.new_memories = extract_memories(reply, TRUE),
       !.filtered = filtered_memories(extract_memories(reply, TRUE), 1)]

\* the request of that turn, answered
AnsweredRequest ==
    [NoRequest EXCEPT !.pc = "done", !.user_message = <<63>>, !.search = "returned",
                      !.prompt = [base |-> <<80>>, lines |-> <<>>], !.forwarded = TRUE, !.assistant_msg = <<111, 107>>,
                      !.status = 200, !.sent = TRUE, !.upstream = 200]

\* the two messages that run has saved
TurnMessages ==
    <<[session_id |-> "r1", role |-> "user", content |-> <<63>>],
      [session_id |-> "r1", role |-> "assistant", content |-> <<111, 107>>]>>

\* the service is up and no import request has arrived yet; with memory enabled a
\* turn of r1 has been answered and its run is about to commit
InitImport ==
    /\ config \in { GatewayEnvironment(e, TRUE, TRUE, <<80>>) : e \in BOOLEAN }
    /\ IF config.MEMORY_ENABLED
       THEN \E st \in PriorStores, reply \in CommittingReplies :
               /\ memories = st.memories
               /\ nextId = st.nextId
               /\ conversations = st.conversations \o TurnMessages
               /\ pipe = [r \in Requests |-> CommittingRun(reply, st.memories)]
               /\ req = [r \in Requests |-> AnsweredRequest]
       ELSE /\ memories = {}
            /\ nextId = 1
            /\ conversations = <<>>
            /\ pipe = [r \in Requests |-> NoRun]
            /\ req = [r \in Requests |-> NoRequest]
    /\ now = 1
    /\ pool = IF config.MEMORY_ENABLED THEN "open" ELSE "none"
    /\ lastSearch = NoSearch
    /\ app = "serving"
    /\ imp = [p \in ImportIds |-> NoImport]
    /\ input = <<>>
    /\ output = <<>>
    /\ tasks = <<>>
    /\ pools = {}

\* SELECT COUNT(*) FROM memories WHERE content = $1
existing_count(mems, content) ==
    Cardinality({m \in mems : m.content = content})

\* `pool = await get_pool()` and the fetchval of the count: the count, or the raise
import_check(content, fault, mems, p, database_url) ==
    LET gp == get_pool(p, database_url, fault) IN
    IF gp.raised \/ fault = "query"
    THEN [raised |-> TRUE, existing |-> 0, pool |-> gp.pool]
    ELSE [raised |-> FALSE, existing |-> existing_count(mems, content), pool |-> gp.pool]

\* the source_session an import path stores with a record
import_session(kind, mem) ==
    CASE kind = "seed" -> "seed-import"
      [] kind = "text" -> "text-import"
      [] OTHER -> get_source_session(mem)

\* GET /import/seed-memories: the import of seed_memories.py, then
\* run_seed_import up to its loop
ImportSeedStart(p) ==
    /\ app = "serving"
    /\ imp[p].pc = "idle"
    /\ \E present \in BOOLEAN, fault \in StoreFaults :
          IF ~present
          THEN /\ imp' = [imp EXCEPT ![p] = return_error(@, "missing")]
               /\ UNCHANGED pool
          ELSE \E o \in { get_all_memories_count(fault, pool, config.DATABASE_URL) } :
                  /\ pool' = o.pool
                  /\ imp' = [imp EXCEPT ![p] =
                        IF o.raised THEN return_error(@, "store")
                        ELSE start_loop(@, "seed", SEED_MEMORIES)]
    /\ UNCHANGED <<memories, conversations, nextId, now, config, tasks, pools, app, input, output, lastSearch, req, pipe>>

\* POST /import/text up to its loop
ImportTextStart(p) ==
    /\ app = "serving"
    /\ imp[p].pc = "idle"
    /\ \E lines \in TextBodies, skip_scoring \in BOOLEAN, importance \in ScoreChoices :
          imp' = [imp EXCEPT ![p] =
             IF ~config.MEMORY_ENABLED THEN return_error(@, "disabled")
             ELSE IF lines = <<>> THEN return_error(@, "empty")
             ELSE IF skip_scoring THEN start_loop(@, "text", unscored(lines))
             ELSE start_loop(@, "text", score_memories(lines, importance))]
    /\ UNCHANGED <<memories, conversations, nextId, now, pool, config, tasks, pools, app, input, output, lastSearch, req, pipe>>

\* GET /export/memories
Export(p) ==
    /\ app = "serving"
    /\ imp[p].pc = "idle"
    /\ IF ~config.MEMORY_ENABLED
       THEN /\ imp' = [imp EXCEPT ![p] = return_error(@, "disabled")]
            /\ UNCHANGED pool
       ELSE \E fault \in StoreFaults :
            \E o \in { get_all_memories(fault, memories, pool, config.DATABASE_URL) } :
               /\ pool' = o.pool
               /\ imp' = [imp EXCEPT ![p] =
                     IF o.raised THEN return_error(@, "store")
                     ELSE [@ EXCEPT !.pc = "exported", !.kind = "export",
                                    !.batch = o.rows]]
    /\ UNCHANGED <<memories, conversations, nextId, now, config, tasks, pools, app, input, output, lastSearch, req, pipe>>

\* POST /import/memories up to its loop; the body is a client's own or the
\* export the client has just received, unchanged
ImportJsonStart(p) ==
    /\ app = "serving"
    /\ imp[p].pc \in {"idle", "exported"}
    /\ \E memories_in \in IF imp[p].pc = "exported" THEN {imp[p].batch} ELSE JsonBodies :
          imp' = [imp EXCEPT ![p] =
             IF ~config.MEMORY_ENABLED THEN return_error(@, "disabled")
             ELSE IF memories_in = <<>>
             THEN return_error([@ EXCEPT !.from_export = imp[p].pc = "exported"], "empty")
             ELSE start_loop([@ EXCEPT !.from_export = imp[p].pc = "exported"],
                             "json", memories_in)]
    /\ UNCHANGED <<memories, conversations, nextId, now, pool, config, tasks, pools, app, input, output, lastSearch, req, pipe>>

\* one turn of the loop up to its insert: the existence check of record i
ImportCheck(p) ==
    /\ imp[p].pc = "check"
    /\ imp[p].i <= Len(imp[p].batch)
    /\ \E fault \in StoreFaults :
       \E o \in { import_check(imp[p].batch[imp[p].i].content, fault, memories, pool,
                               config.DATABASE_URL) } :
          /\ pool' = o.pool
          /\ imp' = [imp EXCEPT ![p] =
                IF o.raised THEN return_error(@, "store")
                ELSE IF o.existing > 0
                THEN [@ EXCEPT !.skipped = @ + 1,
                               !.i = next_item(imp[p].kind, imp[p].batch, imp[p].i + 1)]
                ELSE [@ EXCEPT !.pc = "insert"]]
    /\ UNCHANGED <<memories, conversations, nextId, now, config, tasks, pools, app, input, output, lastSearch, req, pipe>>

\* the rest of the turn: `await save_memory(...)` and `imported += 1`
ImportInsert(p) ==
    /\ imp[p].pc = "insert"
    /\ \E fault \in StoreFaults :
       \E o \in { save_memory(imp[p].batch[imp[p].i].content,
                              get_importance(imp[p].batch[imp[p].i]),
                              import_session(imp[p].kind, imp[p].batch[imp[p].i]),
                              fault, memories, nextId, pool, config.DATABASE_URL, now) } :
          /\ memories' = o.memories
          /\ nextId' = o.nextId
          /\ pool' = o.pool
          /\ imp' = [imp EXCEPT ![p] =
                IF o.raised THEN return_error(@, "store")
                ELSE [@ EXCEPT !.pc = "check", !.imported = @ + 1,
                               !.i = next_item(imp[p].kind, imp[p].batch, imp[p].i + 1)]]
    /\ UNCHANGED <<conversations, now, config, tasks, pools, app, input, output, lastSearch, req, pipe>>

\* the loop is over: the closing count and the response
ImportCount(p) ==
    /\ imp[p].pc = "check"
    /\ imp[p].i > Len(imp[p].batch)
    /\ \E fault \in StoreFaults :
       \E o \in { get_all_memories_count(fault, pool, config.DATABASE_URL) } :
          /\ pool' = o.pool
          /\ imp' = [imp EXCEPT ![p] =
                IF o.raised THEN return_error(@, "store")
                ELSE [@ EXCEPT !.pc = "done", !.status = "done"]]
    /\ UNCHANGED <<memories, conversations, nextId, now, config, tasks, pools, app, input, output, lastSearch, req, pipe>>

\* the queries of GET /debug/memories
DebugQueries == { <<>>, <<20859, 29483>> }

DebugLimit == 20

\* GET /debug/memories: a search when q is given, the recent rows otherwise, then
\* the count; every exception ends in {"error": ...}
DebugMemories ==
    /\ app = "serving"
    /\ config.MEMORY_ENABLED
    /\ \E q \in DebugQueries, fault \in Faults :
          IF q # <<>>
          THEN \E o \in search_memories(q, DebugLimit, fault, memories, pool,
                                        config.DATABASE_URL, now) :
                  /\ memories' = o.memories
                  /\ pool' = o.pool
          ELSE /\ pool' = get_pool(pool, config.DATABASE_URL, fault).pool
               /\ UNCHANGED memories
    /\ UNCHANGED <<conversations, nextId, now, config, tasks, pools, app, imp, input, output, lastSearch, req, pipe>>

NextImport ==
    \/ ImportTextStart("i1")
    \/ ImportSeedStart("i2")
    \/ \E p \in ImportIds :
          \/ ImportJsonStart(p)
          \/ ImportCheck(p)
          \/ ImportInsert(p)
          \/ ImportCount(p)
    \/ \E r \in Requests :
          \/ PipeCommit(r)
          \/ PipeCount(r)
    \/ DebugMemories

SpecImport == InitImport /\ [][NextImport]_vars

\* a client that exports and imports the export back, while the seed import and
\* the committing run go on
NextRoundTrip ==
    \/ Export("i1")
    \/ ImportJsonStart("i1")
    \/ ImportSeedStart("i2")
    \/ \E p \in ImportIds :
          \/ ImportCheck(p)
          \/ ImportInsert(p)
          \/ ImportCount(p)
    \/ \E r \in Requests :
          \/ PipeCommit(r)
          \/ PipeCount(r)

SpecRoundTrip == InitImport /\ [][NextRoundTrip]_vars

----------------------------------------------------------------------------
(* Two pipeline runs at once *)

\* two turns answered one after the other, their runs in flight together
Runs == {"r1", "r2"}

\* the run of a turn whose two rows are written
FetchingRun ==
    [NoRun EXCEPT
       !.pc = "get_recent_memories", !.launches = 1,
       !.user_msg = <<63>>, !.assistant_msg = <<111, 107>>,
       !.log = <<"save_user", "save_assistant">>]

\* the rows of the two turns
RunsMessages ==
    <<[session_id |-> "r1", role |-> "user", content |-> <<63>>],
      [session_id |-> "r2", role |-> "user", content |-> <<63>>],
      [session_id |-> "r1", role |-> "assistant", content |-> <<111, 107>>],
      [session_id |-> "r2", role |-> "assistant", content |-> <<111, 107>>]>>

\* both runs are about to fetch their context
InitRuns ==
    /\ \E st \in PriorStores :
          /\ memories = st.memories
          /\ nextId = st.nextId
          /\ conversations = st.conversations \o RunsMessages
    /\ pipe = [r \in Runs |-> FetchingRun]
    /\ req = [r \in Runs |-> AnsweredRequest]
    /\ config = GatewayEnvironment(TRUE, TRUE, TRUE, <<80>>)
    /\ now \in 0..1
    /\ pool = "open"
    /\ lastSearch = NoSearch
    /\ app = "serving"
    /\ imp = <<>>
    /\ input = <<>>
    /\ output = <<>>
    /\ tasks = <<>>
    /\ pools = {}

\* the extraction step over a few replies
PipeExtractFew(r) == PipeExtractFrom(r, CommittingReplies)

NextRuns ==
    \E r \in Runs :
       \/ PipeFetchContext(r)
       \/ PipeExtractFew(r)
       \/ PipeCommit(r)
       \/ PipeCount(r)

SpecRuns == InitRuns /\ [][NextRuns]_vars

----------------------------------------------------------------------------
(* The connections of the pool: who holds one, and across which awaits *)

\* asyncpg.create_pool(DATABASE_URL, min_size=1, max_size=5)
POOL_MAX_SIZE == 5

\* the chat requests that search while the run and the import go on
ChatTasks == {"chat1", "chat2", "chat3", "chat4"}

TaskIds == {"lifespan", "pipeline", "import"} \cup ChatTasks

\* the awaited calls of a task, in program order; the insert loops have one turn
Program(t) ==
    CASE t = "lifespan" -> <<"init_tables", "get_all_memories_count">>
      [] t = "pipeline" -> <<"save_message", "save_message", "get_recent_memories",
                             "extract_memories", "save_memory", "get_all_memories_count">>
      [] t = "import" -> <<"import_check", "save_memory", "get_all_memories_count">>
      [] OTHER -> <<"search_memories", "upstream">>

\* the statements a store call runs inside its one `async with pool.acquire()`;
\* 0 for an await that is no store call
Statements(call) ==
    CASE call = "init_tables" -> 4
      [] call = "search_memories" -> 2
      [] call \in {"extract_memories", "upstream", "end"} -> 0
      [] OTHER -> 1

\* a task before it runs
NoTask == [at |-> 1, conns |-> 0, left |-> 0]

\* the call task t is at, "end" when its program is over
CallOf(t) == IF tasks[t].at > Len(Program(t)) THEN "end" ELSE Program(t)[tasks[t].at]

\* the connections in use
InUse == Cardinality({t \in TaskIds : tasks[t].conns > 0})

\* lifespan has reached its yield: requests are served, runs and imports go on
Serving(t) == t = "lifespan" \/ tasks["lifespan"].at > Len(Program("lifespan"))

\* the pool is open, the service is starting with memory enabled
InitPool ==
    /\ tasks = [t \in TaskIds |-> NoTask]
    /\ memories = {}
    /\ conversations = <<>>
    /\ nextId = 1
    /\ now = 0
    /\ pool = "open"
    /\ pools = {}
    /\ config = GatewayEnvironment(TRUE, TRUE, TRUE, <<80>>)
    /\ lastSearch = NoSearch
    /\ req = [r \in Requests |-> NoRequest]
    /\ pipe = [r \in Requests |-> NoRun]
    /\ app = "starting"
    /\ imp = <<>>
    /\ input = <<>>
    /\ output = <<>>

\* where a task goes when its call raised: build_system_prompt_with_memories
\* absorbs the failure of the search, every other task leaves its try block
after_raise(t, at) == IF t \in ChatTasks THEN at + 1 ELSE Len(Program(t)) + 1

\* `async with pool.acquire() as conn:` a task that holds no connection gets one
\* when the pool has one free, and waits otherwise
Acquire(t) ==
    /\ Serving(t)
    /\ Statements(CallOf(t)) > 0
    /\ tasks[t].conns = 0
    /\ InUse < POOL_MAX_SIZE
    /\ tasks' = [tasks EXCEPT ![t] = [@ EXCEPT !.conns = 1,
                                               !.left = Statements(CallOf(t))]]
    /\ UNCHANGED <<memories, conversations, nextId, now, pool, config, pools, lastSearch, req,
                   pipe, app, imp, input, output>>

\* get_recent_memories handing its connection to the caller, who gives it back
\* after the extraction
keeps_connection_over_extraction(call) == call = "get_recent_memories"

\* whether the `async with` block of a call reaches over the await that follows
\* the call: no block does, each ends inside its store function
keeps_connection(call) == FALSE

\* the statement a holder awaits returns or raises; after the last statement of
\* the block, or the raise, `async with` gives the connection back. A search
\* without rows has no UPDATE; an import check that found the content skips the
\* insert; an extraction is awaited with no connection held.
Execute(t) ==
    /\ tasks[t].conns > 0
    /\ tasks[t].left > 0
    /\ \E outcome \in {"ok", "last", "raise"} :
          tasks' = [tasks EXCEPT ![t] =
             IF outcome = "raise"
             THEN [at |-> after_raise(t, tasks[t].at), conns |-> 0, left |-> 0]
             ELSE IF tasks[t].left > 1 /\ outcome = "ok"
             THEN [@ EXCEPT !.left = @ - 1]
             ELSE IF tasks[t].left > 1 /\ CallOf(t) # "search_memories"
             THEN [@ EXCEPT !.left = @ - 1]
             ELSE IF keeps_connection(CallOf(t))
             THEN [at |-> tasks[t].at + 1, conns |-> tasks[t].conns, left |-> 0]
             ELSE IF CallOf(t) = "import_check" /\ outcome = "last"
             THEN [at |-> tasks[t].at + 2, conns |-> 0, left |-> 0]
             ELSE [at |-> tasks[t].at + 1, conns |-> 0, left |-> 0]]
    /\ UNCHANGED <<memories, conversations, nextId, now, pool, config, pools, lastSearch, req,
                   pipe, app, imp, input, output>>

\* an await that is no store call returns: the extraction with candidates or
\* with none (the run then has nothing to insert or count), the upstream reply
Return(t) ==
    /\ Serving(t)
    /\ CallOf(t) \in {"extract_memories", "upstream"}
    /\ \E candidates \in BOOLEAN :
          tasks' = [tasks EXCEPT ![t] =
             [at |-> IF CallOf(t) = "extract_memories" /\ ~candidates
                     THEN Len(Program(t)) + 1 ELSE tasks[t].at + 1,
              conns |-> 0, left |-> 0]]
    /\ UNCHANGED <<memories, conversations, nextId, now, pool, config, pools, lastSearch, req,
                   pipe, app, imp, input, output>>

\* one step of the store side: a connection is handed out or a statement ends
StoreStep == \E t \in TaskIds : Acquire(t) \/ Execute(t)

NextPool == \E t \in TaskIds : Acquire(t) \/ Execute(t) \/ Return(t)

\* statements on the store return or fail and the pool hands out a free
\* connection; the extraction and the upstream may never answer
SpecPool == InitPool /\ [][NextPool]_vars /\ WF_vars(StoreStep)

----------------------------------------------------------------------------
(* get_pool and close_pool, statement by statement *)

\* the tasks that call get_pool while the application serves: a chat request's
\* search, a pipeline run in flight, a seed import
PoolCallers == {"chat", "pipeline", "seed"}

PoolTasks == {"lifespan"} \cup PoolCallers

\* a task outside get_pool: got is the pool its call returned, "none" so far
NoCall == [pc |-> "idle", got |-> "none"]

\* the process starts: no pool, nobody has called get_pool
InitPools ==
    /\ pool = "none"
    /\ pools = {}
    /\ tasks = [t \in PoolTasks |-> NoCall]
    /\ app = "starting"
    /\ config \in { GatewayEnvironment(e, u, TRUE, <<80>>) : e \in BOOLEAN, u \in BOOLEAN }
    /\ memories = {}
    /\ conversations = <<>>
    /\ nextId = 1
    /\ now = 0
    /\ lastSearch = NoSearch
    /\ req = [r \in Requests |-> NoRequest]
    /\ pipe = [r \in Requests |-> NoRun]
    /\ imp = <<>>
    /\ input = <<>>
    /\ output = <<>>

\* whether task t may call get_pool now: lifespan calls it in init_tables at
\* start-up when memory is enabled; requests are handled while the application
\* serves, the chat path touching the store only with memory enabled (the seed
\* import has no such test); a run that was launched goes on whatever the
\* application does
MayCall(t) ==
    CASE t = "lifespan" -> app = "starting" /\ config.MEMORY_ENABLED
      [] t = "chat" -> app = "serving" /\ config.MEMORY_ENABLED
      [] t = "seed" -> app = "serving"
      [] OTHER -> app # "starting" /\ config.MEMORY_ENABLED

\* get_pool up to its await: `if _pool is None:`, the DATABASE_URL test, then
\* the call of asyncpg.create_pool; with a pool in place, `return _pool`
GetPoolEnter(t) ==
    /\ MayCall(t)
    /\ tasks[t].pc = "idle"
    /\ tasks' = [tasks EXCEPT ![t] =
          IF pool # "none" THEN [pc |-> "returned", got |-> pool]
          ELSE IF ~config.DATABASE_URL THEN [pc |-> "raised", got |-> "none"]
          ELSE [pc |-> "creating", got |-> "none"]]
    /\ UNCHANGED <<memories, conversations, nextId, now, pool, config, pools, lastSearch, req,
                   pipe, app, imp, input, output>>

\* create_pool returns a new pool, which is assigned to _pool and returned, or
\* it raises and _pool stays as it is
GetPoolCreated(t) ==
    /\ tasks[t].pc = "creating"
    /\ \E fault \in {"ok", "connect"} :
          IF fault = "connect"
          THEN /\ tasks' = [tasks EXCEPT ![t] = [pc |-> "raised", got |-> "none"]]
               /\ UNCHANGED <<pool, pools>>
          ELSE /\ pools' = pools \cup {t}
               /\ pool' = t
               /\ tasks' = [tasks EXCEPT ![t] = [pc |-> "returned", got |-> t]]
    /\ UNCHANGED <<memories, conversations, nextId, now, config, lastSearch, req,
                   pipe, app, imp, input, output>>

\* lifespan reaches its yield: init_tables has returned or raised (the raise is
\* caught), or memory is disabled
LifespanYield ==
    /\ app = "starting"
    /\ config.MEMORY_ENABLED => tasks["lifespan"].pc \in {"returned", "raised"}
    /\ app' = "serving"
    /\ UNCHANGED <<memories, conversations, nextId, now, pool, config, tasks, pools, lastSearch,
                   req, pipe, imp, input, output>>

\* shutdown: `if MEMORY_ENABLED: await close_pool()`, and in close_pool
\* `if _pool: await _pool.close()`; got remembers the pool being closed
ClosePoolBegin ==
    /\ app = "serving"
    /\ IF config.MEMORY_ENABLED /\ pool # "none"
       THEN /\ app' = "closing"
            /\ tasks' = [tasks EXCEPT !["lifespan"] = [pc |-> "closing", got |-> pool]]
       ELSE /\ app' = "stopped"
            /\ UNCHANGED tasks
    /\ UNCHANGED <<memories, conversations, nextId, now, pool, config, pools, lastSearch, req,
                   pipe, imp, input, output>>

\* `_pool.close()` has returned: that pool is closed, then `_pool = None`
ClosePoolEnd ==
    /\ app = "closing"
    /\ pools' = pools \ {tasks["lifespan"].got}
    /\ pool' = "none"
    /\ app' = "stopped"
    /\ tasks' = [tasks EXCEPT !["lifespan"] = [pc |-> "closed", got |-> "none"]]
    /\ UNCHANGED <<memories, conversations, nextId, now, config, lastSearch, req,
                   pipe, imp, input, output>>

NextPools ==
    \/ \E t \in PoolTasks : GetPoolEnter(t) \/ GetPoolCreated(t)
    \/ LifespanYield
    \/ ClosePoolBegin
    \/ ClosePoolEnd

SpecPools == InitPools /\ [][NextPools]_vars

----------------------------------------------------------------------------
(* Properties of search_memories, stated on the last call *)

\* token occurs in content as a substring, ignoring the case of ASCII letters
Matches(content, token) ==
    \E i \in 0..(Len(content) - Len(token)) :
        \A k \in 1..Len(token) : Lower(content[i + k]) = Lower(token[k])

Hits(content, tokens) == Cardinality({ tok \in tokens : Matches(content, tok) })

\* score(a) > score(b) for memories a and b, with
\* score = W_keyword * hits / |tokens| + W_importance * importance / 10
\*         + W_recency / (1 + age in days)
ScoreAbove(a, b, tokens, t) ==
    LET n == Cardinality(tokens)
        da == TicksPerDay + (t - a.created_at)
        db == TicksPerDay + (t - b.created_at)
    IN    (10 * WEIGHT_KEYWORD * Hits(a.content, tokens) + WEIGHT_IMPORTANCE * a.importance * n)
              * da * db + 10 * WEIGHT_RECENCY * TicksPerDay * n * db
        > (10 * WEIGHT_KEYWORD * Hits(b.content, tokens) + WEIGHT_IMPORTANCE * b.importance * n)
              * da * db + 10 * WEIGHT_RECENCY * TicksPerDay * n * da

\* a ranks strictly before b: score, then importance, then created_at, descending
RanksBefore(a, b, tokens, t) ==
    \/ ScoreAbove(a, b, tokens, t)
    \/ /\ ~ScoreAbove(b, a, tokens, t)
       /\ \/ a.importance > b.importance
          \/ a.importance = b.importance /\ a.created_at > b.created_at

ReturnedIds == { lastSearch.ret[i].id : i \in 1..Len(lastSearch.ret) }

\* the call got past the tokenizer and returned
SearchReturned(tokens) == lastSearch.called /\ tokens # {} /\ ~lastSearch.raised

\* C8: a call whose query has no token returns the empty list without raising
\* and without touching the store: get_pool is not called, the pool is as it
\* was and no row's last_accessed has changed, whatever the state of the store.
C8_EmptyTokenSetReturnsEmpty ==
    \A tokens \in { extract_search_keywords(lastSearch.query) } :
        (lastSearch.called /\ tokens = {}) =>
            /\ lastSearch.ret = <<>>
            /\ ~lastSearch.raised
            /\ ~lastSearch.acquired
            /\ pool = lastSearch.pool_before
            /\ memories \subseteq RowPool

\* a query without tokens that is not the empty string, on a store that would
\* fail to connect, with rows in the table and no pool yet
C8_Witness ==
    /\ lastSearch.called
    /\ extract_search_keywords(lastSearch.query) = {}
    /\ lastSearch.query # <<>>
    /\ lastSearch.fault = "connect"
    /\ memories # {}
    /\ pool = "none"
    /\ lastSearch.ret = <<>>

\* C9: a returned row is a memory whose content holds at least one token of the
\* query, ignoring case; its hit_count is the number of distinct tokens it holds;
\* and a memory that holds a token is returned unless the limit is reached.
C9_CandidateIffTokenMatch ==
    \A tokens \in { extract_search_keywords(lastSearch.query) } :
        SearchReturned(tokens) =>
            /\ \A i \in 1..Len(lastSearch.ret) :
                  /\ \E m \in memories :
                        m.id = lastSearch.ret[i].id /\ m.content = lastSearch.ret[i].content
                  /\ \E tok \in tokens : Matches(lastSearch.ret[i].content, tok)
                  /\ lastSearch.ret[i].hit_count = Hits(lastSearch.ret[i].content, tokens)
            /\ \A m \in memories :
                  ((\E tok \in tokens : Matches(m.content, tok))
                    /\ Len(lastSearch.ret) < lastSearch.limit) => m.id \in ReturnedIds

\* a call with room left under the limit that returned a row matching two tokens
\* only when case is ignored and left out a memory that matches none
C9_Witness ==
    /\ lastSearch.called /\ ~lastSearch.raised
    /\ Len(lastSearch.ret) < lastSearch.limit
    /\ \E i \in 1..Len(lastSearch.ret) :
          /\ lastSearch.ret[i].hit_count = 2
          /\ ~Contains(lastSearch.ret[i].content, <<71, 65, 82, 65, 78>>)
    /\ \E m \in memories : m.id \notin ReturnedIds

\* C10: the result holds min(limit, number of candidates) rows and never more
\* than limit, it is in rank order, and no candidate left out ranks strictly
\* before a returned one.
C10_TopLimitInRankOrder ==
    \A tokens \in { extract_search_keywords(lastSearch.query) } :
        SearchReturned(tokens) =>
            LET cand == { m \in memories : \E tok \in tokens : Matches(m.content, tok) }
                row(i) == CHOOSE m \in memories : m.id = lastSearch.ret[i].id
            IN  /\ Len(lastSearch.ret) <= lastSearch.limit
                /\ Len(lastSearch.ret) = Min(lastSearch.limit, Cardinality(cand))
                /\ ReturnedIds \subseteq { m.id : m \in cand }
                /\ Cardinality(ReturnedIds) = Len(lastSearch.ret)
                /\ \A i, j \in 1..Len(lastSearch.ret) :
                      i < j => ~RanksBefore(row(j), row(i), tokens, lastSearch.at)
                /\ \A m \in cand : m.id \notin ReturnedIds =>
                      \A i \in 1..Len(lastSearch.ret) :
                          ~RanksBefore(m, row(i), tokens, lastSearch.at)

\* a result cut off by the limit, whose first two rows tie on score and are
\* ordered by importance
C10_Witness ==
    \A tokens \in { extract_search_keywords(lastSearch.query) } :
        /\ SearchReturned(tokens)
        /\ Len(lastSearch.ret) = 2
        /\ Cardinality({ m \in memories : \E tok \in tokens : Matches(m.content, tok) }) = 3
        /\ lastSearch.ret[1].score[1] * lastSearch.ret[2].score[2]
              = lastSearch.ret[2].score[1] * lastSearch.ret[1].score[2]
        /\ lastSearch.ret[1].importance > lastSearch.ret[2].importance

\* C7 as claimed: when the UPDATE of last_accessed fails, the call still returns
\* the ranked rows it fetched and does not raise.
C7_UpdateFailureStillReturns ==
    \A tokens \in { extract_search_keywords(lastSearch.query) } :
        (lastSearch.called /\ tokens # {} /\ lastSearch.fault = "update"
            /\ config.DATABASE_URL) =>
            /\ ~lastSearch.raised
            /\ lastSearch.ret \in Fetch(memories, tokens, lastSearch.limit, lastSearch.at)

----------------------------------------------------------------------------
(* Properties of the gateway and of the pipeline runs *)

\* the rows of table conversations that session r wrote, as role/content pairs
TurnRows(r) ==
    SelectSeq(conversations, LAMBDA row : row.session_id = r)

\* both rows of turn r are persisted, the user row first
TurnPersisted(r) ==
    /\ Len(TurnRows(r)) = 2
    /\ TurnRows(r)[1].role = "user" /\ TurnRows(r)[1].content = req[r].user_message
    /\ TurnRows(r)[2].role = "assistant" /\ TurnRows(r)[2].content = req[r].assistant_msg

ContextFetched(r) == \E i \in 1..Len(pipe[r].log) : pipe[r].log[i] = "get_recent_memories"

ExtractionReturned(r) == pipe[r].reply # "none"

\* the memories inserted for turn r
Committed(r) == { m \in memories : m.source_session = r }

\* C1: within a run the steps are ordered: the context is read only when both
\* rows of the turn (user, then assistant) are written, the extraction client is
\* called only after the context is read, and a memory of the turn is inserted
\* only after the extraction has returned and the turn's rows are persisted.
C1_PipelineStepsOrdered ==
    \A r \in Requests :
       /\ (Len(TurnRows(r)) >= 1 => TurnRows(r)[1].role = "user")
       /\ (ContextFetched(r) => TurnPersisted(r))
       /\ (ExtractionReturned(r) => ContextFetched(r))
       /\ (Committed(r) # {} => ExtractionReturned(r) /\ TurnPersisted(r))

\* a run that went through every step and inserted two memories
C1_Witness ==
    \E r \in Requests :
       /\ pipe[r].pc = "done"
       /\ Cardinality(Committed(r)) = 2
       /\ TurnPersisted(r)

\* C2: when a step of a run raises, the run ends there, nothing is raised to
\* the caller, and the response of the request is what the upstream reply made
\* it: status 200, sent or about to be sent whatever the run did.
C2_StepExceptionContained ==
    \A r \in Requests :
       pipe[r].raised_at # "none" =>
          /\ pipe[r].pc = "abandoned"
          /\ ~pipe[r].escaped
          /\ req[r].status = 200
          /\ \/ req[r].sent
             \/ req[r].pc = "closing" /\ ENABLED ChatReturn(r)

\* the second insert of a run raises while the response is not yet sent
C2_Witness ==
    \E r \in Requests :
       /\ pipe[r].raised_at = "save_memory"
       /\ pipe[r].saved = 1
       /\ req[r].pc = "closing"

\* C3: when the extraction call ends in a transport error, a timeout, a
\* non-200 status, a body that is not JSON or JSON that is not an array,
\* extract_memories returns the empty list, nothing is raised, and the run
\* inserts no memory: the table holds the rows it held before.
C3_ExtractionFailureCommitsNothing ==
    \A r \in Requests :
       pipe[r].reply \in ReplyFailures =>
          /\ pipe[r].new_memories = <<>>
          /\ pipe[r].raised_at # "extract_memories"
          /\ ~pipe[r].escaped
          /\ pipe[r].saved = 0
          /\ Committed(r) = {}
          /\ \E st \in PriorStores :
                nextId = st.nextId /\ { m.id : m \in memories } = { m.id : m \in st.memories }

\* a run whose extraction got a non-200 reply has ended, the table has a row
C3_Witness ==
    \E r \in Requests :
       /\ pipe[r].reply = "status"
       /\ pipe[r].pc = "done"
       /\ memories # {}

\* content has a term of the denylist as a substring, case as written
HasDeniedTerm(content) ==
    \E kw \in META_BLACKLIST :
       \E i \in 1..(Len(content) - Len(kw) + 1) : SubSeq(content, i, i + Len(kw) - 1) = kw

\* C4: no memory a run inserts contains a denylist term, and of the candidates
\* the extraction returned exactly those without a term go on to the commit
\* step, in their order, whatever their importance.
C4_DenylistFilter ==
    \A r \in Requests :
       /\ \A m \in Committed(r) : ~HasDeniedTerm(m.content)
       /\ (ExtractionReturned(r) =>
             pipe[r].filtered =
                SelectSeq(pipe[r].new_memories, LAMBDA c : ~HasDeniedTerm(c.content)))

\* a candidate with "bug" and importance 10 was dropped, one with "Bug" inserted
C4_Witness ==
    \E r \in Requests :
       /\ \E i \in 1..Len(pipe[r].new_memories) :
             /\ pipe[r].new_memories[i].content = <<20462, 98, 117, 103>>
             /\ pipe[r].new_memories[i].importance = 10
       /\ \E m \in Committed(r) : m.content = <<66, 117, 103>>
       /\ Len(pipe[r].filtered) = 1

\* the first step of the run of r has run
PipelineStarted(r) == pipe[r].log # <<>> \/ pipe[r].raised_at # "none"

\* C5: the response of a turn has been sent before the first step of the turn's
\* run (the first save_message) runs, for stream and non-stream requests.
C5_ResponseSentBeforePipelineStarts ==
    \A r \in Requests : PipelineStarted(r) => req[r].sent

\* C6: a request whose memory search raised a store error is forwarded
\* upstream, and the prompt build_system_prompt_with_memories returned is
\* SYSTEM_PROMPT itself, with no memory line.
C6_SearchFailureDegrades ==
    \A r \in Requests :
       req[r].search = "raised" =>
          /\ req[r].forwarded
          /\ req[r].pc # "idle"
          /\ req[r].prompt = [base |-> config.SYSTEM_PROMPT, lines |-> <<>>]
          /\ (req[r].pc = "done" /\ ~req[r].stream => req[r].sent /\ req[r].status \in {200, 500})

\* the search found a row, the last_accessed update failed, the request went on
C6_Witness ==
    \E r \in Requests :
       /\ req[r].search = "raised"
       /\ req[r].fault = "update"
       /\ req[r].forwarded
       /\ memories # {}

----------------------------------------------------------------------------
(* Properties of extract_search_keywords *)

\* a CJK ideograph: U+4E00-U+9FFF or U+3400-U+4DBF
Ideograph(c) == c \in 19968..40959 \/ c \in 13312..19903

\* an ASCII letter or digit
AsciiAlnum(c) == c \in 65..90 \/ c \in 97..122 \/ c \in 48..57

\* a decimal digit: ASCII, Arabic-Indic or fullwidth
Digit(c) == c \in 48..57 \/ c \in 1632..1641 \/ c \in 65296..65305

\* s[i..j] lies in one class and cannot be extended on either side
MaximalIdeographRun(s, i, j) ==
    /\ i <= j
    /\ \A k \in i..j : Ideograph(s[k])
    /\ (i > 1 => ~Ideograph(s[i - 1]))
    /\ (j < Len(s) => ~Ideograph(s[j + 1]))

MaximalAlnumRun(s, i, j) ==
    /\ i <= j
    /\ \A k \in i..j : AsciiAlnum(s[k])
    /\ (i > 1 => ~AsciiAlnum(s[i - 1]))
    /\ (j < Len(s) => ~AsciiAlnum(s[j + 1]))

MaximalDigitRun(s, i, j) ==
    /\ i <= j
    /\ \A k \in i..j : Digit(s[k])
    /\ (i > 1 => ~Digit(s[i - 1]))
    /\ (j < Len(s) => ~Digit(s[j + 1]))

\* the contiguous substrings of s of length n
Grams(s, n) == { SubSeq(s, i, i + n - 1) : i \in 1..(Len(s) - n + 1) }

\* C19: for a query that is one run of CJK ideographs, the keywords are exactly
\* its contiguous 2-character substrings, with its contiguous 3-character
\* substrings when it has 3 characters or more; one ideograph alone gives none.
C19_CjkRunNgrams ==
    (output.returned /\ Len(input) >= 1 /\ \A k \in 1..Len(input) : Ideograph(input[k])) =>
       output.value = IF Len(input) = 1 THEN {}
                      ELSE IF Len(input) = 2 THEN Grams(input, 2)
                      ELSE Grams(input, 2) \cup Grams(input, 3)

\* a run of four ideographs from both ranges has three 2-grams and two 3-grams
C19_Witness ==
    /\ output.returned
    /\ input = <<26149, 33410, 13312, 26149>>
    /\ Cardinality(output.value) = 5

\* C20: for any query the keywords are exactly: every maximal run of ASCII
\* letters and digits of length >= 2, as written; every maximal run of >= 2
\* digits; and the 2- and 3-grams taken inside one maximal CJK run of length
\* >= 2. So no keyword is one ASCII letter or digit and none spans a boundary
\* between CJK and other characters.
C20_MixedScriptTokens ==
    output.returned =>
       /\ output.value =
             { SubSeq(input, ij[1], ij[2]) :
                 ij \in { r \in (1..Len(input)) \X (1..Len(input)) :
                            /\ r[2] > r[1]
                            /\ MaximalAlnumRun(input, r[1], r[2]) \/ MaximalDigitRun(input, r[1], r[2]) } }
             \cup UNION { Grams(SubSeq(input, ij[1], ij[2]), 2) \cup Grams(SubSeq(input, ij[1], ij[2]), 3) :
                 ij \in { r \in (1..Len(input)) \X (1..Len(input)) :
                            r[2] > r[1] /\ MaximalIdeographRun(input, r[1], r[2]) } }
       /\ \A kw \in output.value :
             /\ Len(kw) >= 2
             /\ \/ \A k \in 1..Len(kw) : Ideograph(kw[k])
                \/ \A k \in 1..Len(kw) : ~Ideograph(kw[k])

\* "Ga" next to a CJK pair: exactly the word and the pair
C20_Witness ==
    /\ output.returned
    /\ input = <<71, 97, 26149, 33410>>
    /\ output.value = { <<71, 97>>, <<26149, 33410>> }

----------------------------------------------------------------------------
(* The frame of search_memories *)

\* C16: a call of search_memories leaves the tables as they are except for
\* last_accessed: the rows keep their id, content, importance, created_at and
\* source_session, no row is added or removed, a row that is returned gets
\* last_accessed = the time of the call, and a row that is not returned (no
\* token matches it, or the limit cut it off) keeps its last_accessed.
C16_SearchStampsOnlyReturned ==
    [][ lastSearch' # lastSearch =>
          /\ conversations' = conversations
          /\ nextId' = nextId
          /\ Cardinality(memories') = Cardinality(memories)
          /\ \A m \in memories :
                \E n \in memories' :
                   /\ n.id = m.id
                   /\ n.content = m.content
                   /\ n.importance = m.importance
                   /\ n.created_at = m.created_at
                   /\ n.source_session = m.source_session
                   /\ n.last_accessed =
                        IF m.id \in { lastSearch'.ret[i].id : i \in 1..Len(lastSearch'.ret) }
                        THEN lastSearch'.at ELSE m.last_accessed ]_vars

\* a call returned one row, now stamped, and the limit cut off another row
\* that matches the query and keeps its older last_accessed
C16_Witness ==
    /\ lastSearch.called /\ ~lastSearch.raised
    /\ Len(lastSearch.ret) = 1
    /\ \E m \in memories : m.id \in ReturnedIds /\ m.last_accessed = lastSearch.at
                           /\ m.created_at < lastSearch.at
    /\ \E m \in memories :
          /\ m.id \notin ReturnedIds
          /\ \E tok \in extract_search_keywords(lastSearch.query) : Matches(m.content, tok)
          /\ m.last_accessed < lastSearch.at

----------------------------------------------------------------------------
(* Properties of extract_memories *)

\* C13: a malformed element of the reply array (not an object, no content, an
\* importance that is no integer) is handled on its own: every element with
\* content and an integer importance is returned as it is, and every element
\* with content and no importance is returned with importance 5, whatever the
\* other elements of the array are.
C13_MalformedCandidateHandledAlone ==
    (output.returned /\ input.API_KEY /\ input.reply.kind = "array") =>
       \A i \in 1..Len(input.reply.elems) :
          /\ input.reply.elems[i].kind = "object" =>
                \E j \in 1..Len(output.value) :
                   output.value[j] = [content |-> input.reply.elems[i].content,
                                      importance |-> input.reply.elems[i].importance]
          /\ input.reply.elems[i].kind = "no_importance" =>
                \E j \in 1..Len(output.value) :
                   output.value[j] = [content |-> input.reply.elems[i].content,
                                      importance |-> 5]

----------------------------------------------------------------------------
(* Properties of the stored memories *)

\* C14: every row of table memories has an importance from 1 to 10, whatever
\* importance the extraction model or an imported record gave.
C14_ImportanceInRange ==
    \A m \in memories : m.importance >= 1 /\ m.importance <= 10

----------------------------------------------------------------------------
(* Termination of a pipeline run *)

\* the position of a statement in process_memories_background
StatementRank(pc) ==
    CASE pc = "none" -> 0
      [] pc = "save_user" -> 1
      [] pc = "save_assistant" -> 2
      [] pc = "get_recent_memories" -> 3
      [] pc = "extract_memories" -> 4
      [] pc = "save_memory" -> 5
      [] OTHER -> 6

RunEnded(r) == pipe[r].pc \in {"done", "abandoned"}

\* C17: a run never goes back: every step of a run either ends it (the step
\* raised, or the run is complete) or moves it to a later statement, the insert
\* loop moving to its next candidate; an ended run does nothing more. And a run
\* whose calls all return or fail ends: done, or abandoned.
C17_NoRetryAndEnds ==
    /\ [][ \A r \in Requests :
             pipe'[r] # pipe[r] =>
                /\ ~RunEnded(r)
                /\ \/ pipe'[r].pc = "abandoned" /\ pipe'[r].raised_at # "none"
                   \/ pipe[r].raised_at = "none" /\ pipe'[r].raised_at = "none"
                      /\ \/ StatementRank(pipe'[r].pc) > StatementRank(pipe[r].pc)
                         \/ /\ pipe[r].pc = "save_memory" /\ pipe'[r].pc = "save_memory"
                            /\ pipe'[r].saved = pipe[r].saved + 1
                            /\ pipe'[r].saved <= Len(pipe[r].filtered) ]_vars
    /\ \A r \in Requests : (pipe[r].pc # "none") ~> RunEnded(r)

\* a run ended after its first insert succeeded and its second one failed
C17_Witness ==
    \E r \in Requests :
       /\ pipe[r].pc = "abandoned"
       /\ pipe[r].raised_at = "save_memory"
       /\ pipe[r].saved = 1
       /\ Len(pipe[r].filtered) = 2

----------------------------------------------------------------------------
(* The gateway without the store *)

\* C18: with MEMORY_ENABLED false nothing touches the store: no pool is
\* created, the tables stay as they were, no search is made, no pipeline run is
\* launched, and a request is forwarded with SYSTEM_PROMPT itself. And the
\* start-up never fails on the store: whatever happened to the store at
\* start-up, a request that has an API key is forwarded upstream.
C18_WorksWithoutStore ==
    /\ app # "failed"
    /\ ~config.MEMORY_ENABLED =>
          /\ pool = "none"
          /\ memories = {} /\ conversations = <<>> /\ nextId = 1
          /\ \A r \in Requests :
                /\ pipe[r] = NoRun
                /\ req[r].search = "none"
                /\ (req[r].forwarded =>
                      req[r].prompt = [base |-> config.SYSTEM_PROMPT, lines |-> <<>>])
    /\ \A r \in Requests : (config.API_KEY /\ req[r].pc # "idle") => req[r].forwarded

\* memory off: a turn with a user message and a reply went through and is sent
C18_Witness ==
    \E r \in Requests :
       /\ ~config.MEMORY_ENABLED
       /\ req[r].pc = "done" /\ req[r].sent /\ req[r].status = 200
       /\ req[r].user_message # <<>> /\ req[r].assistant_msg # <<>>
       /\ config.SYSTEM_PROMPT # <<>>

----------------------------------------------------------------------------
(* Properties of the import paths *)

\* the source_session values only an import path writes in this model
ImportSessions == {"seed-import", "text-import", "json-import"}

\* C11: an import path (seed, text or JSON) never inserts a record whose content
\* equals the content of a memory that exists at the time of the insert, so
\* contents that were pairwise distinct stay pairwise distinct whatever the
\* interleaving of concurrent import requests. Ids are given in insertion order,
\* so a row with a smaller id existed when a row with a larger id was inserted.
C11_ImportNeverInsertsExistingContent ==
    \A m1, m2 \in memories :
        (m2.source_session \in ImportSessions /\ m1.id < m2.id) => m1.content # m2.content

\* the import of an export, unchanged, has returned without a store failure
RoundTripReturned(p) ==
    imp[p].from_export /\ imp[p].pc = "done" /\ imp[p].status # "store"

\* C12: for every memory set, exporting it and importing that export unchanged
\* through the JSON import inserts nothing and reports status done with
\* imported = 0 and skipped = total, the number of exported memories.
C12_RoundTripSkipsAll ==
    \A p \in ImportIds :
        RoundTripReturned(p) =>
            /\ imp[p].status = "done"
            /\ imp[p].imported = 0
            /\ imp[p].skipped = Len(imp[p].batch)

----------------------------------------------------------------------------
(* The stored memories under pipeline runs, searches and imports *)

\* what a memory is, apart from its access stamp
Core(m) == [id |-> m.id, content |-> m.content, importance |-> m.importance,
            created_at |-> m.created_at]

\* C15: a pipeline commit, a search and an import never remove or rewrite a
\* memory: every step keeps each stored memory with its id, content, importance
\* and created_at, so the set of memories only grows; a step changes
\* last_accessed at most.
C15_MemoriesOnlyGrow ==
    [][ /\ \A m \in memories : \E n \in memories' : Core(n) = Core(m)
        /\ Cardinality(memories') >= Cardinality(memories) ]_vars

\* an import and the pipeline run have each inserted a row, and a search has
\* stamped an older row
C15_Witness ==
    /\ \E m \in memories : m.source_session \in ImportSessions
    /\ \E m \in memories : m.source_session = "r1"
    /\ \E m \in memories : m.source_session = "s0" /\ m.last_accessed > m.created_at

----------------------------------------------------------------------------
(* The trigger into the pipeline *)

\* the handler of a non-streaming request has the upstream's answer
Answered(r) == req[r].forwarded /\ ~req[r].stream /\ req[r].pc \in {"closing", "done"}

\* the stream of r ran to its end
StreamRanToEnd(r) == req[r].forwarded /\ req[r].stream /\ req[r].pc = "done" /\ req[r].sent

\* the stream of r was left before its end
StreamAborted(r) == req[r].forwarded /\ req[r].stream /\ req[r].pc = "done" /\ ~req[r].sent

\* the upstream reply of r was fully received with status 200
ReplyComplete(r) == (Answered(r) \/ StreamRanToEnd(r)) /\ req[r].upstream = 200

\* the reply of r did not complete: a non-200 upstream status or an aborted stream
ReplyIncomplete(r) ==
    \/ (Answered(r) \/ StreamRanToEnd(r)) /\ req[r].upstream # 200
    \/ StreamAborted(r)

\* the run of r was launched once, with the turn's user text and full assistant text
LaunchedOnceWithTurn(r) ==
    /\ pipe[r].launches = 1
    /\ pipe[r].user_msg = req[r].user_message
    /\ pipe[r].assistant_msg = req[r].assistant_msg

\* C21: with memory enabled, a request whose upstream reply was fully received
\* (non-streaming 200, or a stream that ran to its end) launches
\* process_memories_background exactly once with the turn's user text and full
\* assistant text, and a request whose reply did not complete (non-200 upstream
\* status, stream aborted) launches none.
C21_TriggerOncePerCompletedTurn ==
    \A r \in Requests :
        config.MEMORY_ENABLED =>
            /\ ReplyComplete(r) => LaunchedOnceWithTurn(r)
            /\ ReplyIncomplete(r) => pipe[r].launches = 0

----------------------------------------------------------------------------
(* The writes of a run that fails *)

\* the statements of the run of r that completed
Done(r, step) == \E i \in 1..Len(pipe[r].log) : pipe[r].log[i] = step

\* the rows of the turn are those of the save_message calls that completed
TurnRowsWritten(r) ==
    /\ Len(TurnRows(r)) = (IF Done(r, "save_user") THEN 1 ELSE 0)
                          + (IF Done(r, "save_assistant") THEN 1 ELSE 0)
    /\ Done(r, "save_user") =>
          TurnRows(r)[1].role = "user" /\ TurnRows(r)[1].content = pipe[r].user_msg
    /\ Done(r, "save_assistant") =>
          TurnRows(r)[2].role = "assistant" /\ TurnRows(r)[2].content = pipe[r].assistant_msg

\* the memories of the turn are the first pipe[r].saved surviving candidates, in
\* extraction order
FirstCandidatesInserted(r) ==
    /\ Cardinality(Committed(r)) = pipe[r].saved
    /\ \A k \in 1..pipe[r].saved :
          \E m \in Committed(r) :
             /\ Cardinality({n \in Committed(r) : n.id <= m.id}) = k
             /\ m.content = pipe[r].filtered[k].content
             /\ m.importance = pipe[r].filtered[k].importance

\* C22: pipeline writes are never rolled back. Whatever state a run is in, failed
\* ones included, the store holds the turn rows of the save_message calls that
\* completed and exactly the first k surviving candidates, k being the inserts
\* that completed; and once the run has ended nothing of it is written or
\* removed any more, so the remaining n-k candidates are never inserted.
C22_NoRollback ==
    /\ [](\A r \in Requests : TurnRowsWritten(r) /\ FirstCandidatesInserted(r))
    /\ [][ \A r \in Requests :
             RunEnded(r) =>
                /\ TurnRows(r)' = TurnRows(r)
                /\ {Core(m) : m \in Committed(r)}' = {Core(m) : m \in Committed(r)} ]_vars

\* a turn persisted without any of its memories: both rows are written, the
\* first insert of the surviving candidates failed and the run was abandoned
C22_Witness ==
    \E r \in Requests :
       /\ pipe[r].pc = "abandoned"
       /\ pipe[r].raised_at = "save_memory"
       /\ pipe[r].filtered # <<>>
       /\ pipe[r].saved = 0
       /\ Len(TurnRows(r)) = 2
       /\ Committed(r) = {}

----------------------------------------------------------------------------
(* Duplicates through the pipeline *)

\* C23: the commit step performs no existence check and runs are not
\* serialized: every insert of a run that completes adds one new row holding the
\* candidate's content, whether or not a memory of that content exists already
\* and whatever the other run is doing, so memories of equal content are
\* reachable through the pipeline.
C23_CommitWithoutExistenceCheck ==
    [][ \A r \in Runs :
          pipe'[r].saved = pipe[r].saved + 1 =>
             \E m \in memories' \ memories :
                /\ memories' = memories \cup {m}
                /\ m.id \notin {n.id : n \in memories}
                /\ m.source_session = r
                /\ m.content = pipe[r].filtered[pipe[r].saved + 1].content ]_vars

\* both runs fetched their context, which held the content, before either
\* committed, and both inserted that content again: three memories of it
C23_Witness ==
    \E m0, m1, m2 \in memories :
       /\ m0.source_session = "s0" /\ m1.source_session = "r1" /\ m2.source_session = "r2"
       /\ m1.content = m0.content /\ m2.content = m0.content
       /\ pipe["r1"].existing = <<m0.content>>
       /\ pipe["r2"].existing = <<m0.content>>

----------------------------------------------------------------------------
(* Connections and suspensions *)

\* task t is at a store call and has no connection yet
Waiting(t) == Serving(t) /\ Statements(CallOf(t)) > 0 /\ tasks[t].conns = 0

\* no connection is held while an extraction or an upstream reply is awaited, no
\* task holds two, and the pool hands out at most max_size
HoldersBounded ==
    /\ \A t \in TaskIds :
          /\ tasks[t].conns <= 1
          /\ CallOf(t) \in {"extract_memories", "upstream", "end"} => tasks[t].conns = 0
    /\ InUse <= POOL_MAX_SIZE

\* the tasks that wait for a connection get one: a task stops waiting only by
\* acquiring, and from some point on no task waits
WaitersServed == <>[](\A t \in TaskIds : ~Waiting(t))

\* C24 as stated: a connection is held only across the suspension on the
\* holder's own single store statement; no connection is held while the
\* extraction is awaited and no task holds two; tasks waiting for a
\* connection of the bounded pool are eventually served.
C24_ConnectionHeldForOneStatement ==
    /\ [](\A t \in TaskIds :
             tasks[t].conns > 0 => Statements(CallOf(t)) = 1 /\ tasks[t].left = 1)
    /\ []HoldersBounded
    /\ WaitersServed

\* C24, amended: a connection is held only inside one store call, across the
\* suspensions on that call's own statements (one statement, two in
\* search_memories, four in init_tables); no connection is held while the
\* extraction or the upstream is awaited and no task holds two; tasks waiting
\* for a connection of the bounded pool are eventually served, even when an
\* extraction never returns.
C24_ConnectionHeldInsideOneStoreCall ==
    /\ [](\A t \in TaskIds :
             tasks[t].conns > 0 =>
                /\ Statements(CallOf(t)) > 0
                /\ tasks[t].left \in 1..Statements(CallOf(t)))
    /\ []HoldersBounded
    /\ WaitersServed

\* the pool is exhausted, one holder being a search at its second statement,
\* and a chat request waits for a connection
C24_Witness ==
    /\ InUse = POOL_MAX_SIZE
    /\ \E t \in ChatTasks : Waiting(t)
    /\ \E t \in ChatTasks : tasks[t].conns = 1 /\ tasks[t].left = 1

----------------------------------------------------------------------------
(* The pool as a singleton *)

\* close_pool was called at shutdown and has returned
ClosePoolCompleted == app = "stopped" /\ config.MEMORY_ENABLED

\* C25: the pool is a process-wide lazy singleton: however the calls of
\* get_pool interleave, at most one pool is open at any time, every open pool is
\* the one _pool refers to (every caller gets the same pool, none is leaked), and
\* once close_pool has completed no pool is open, none being created again by a
\* run still in flight.
C25_PoolIsSingleton ==
    /\ Cardinality(pools) <= 1
    /\ pools \subseteq {pool}
    /\ \A t, u \in PoolCallers :
          (tasks[t].got \in pools /\ tasks[u].got \in pools) => tasks[t].got = tasks[u].got
    /\ ClosePoolCompleted => pools = {}
====
